---- MODULE Spec2Model ----
(***************************************************************************)
(* State-machine model of the transaction pipeline of BLKHACK:             *)
(*   app/services/validation_service.py  validate_transactions             *)
(*   app/services/temporal_service.py    apply_temporal_filter(_raw)       *)
(*   app/services/transaction_service.py build_transactions                *)
(*   app/services/return_service.py      calculate_returns                 *)
(*   app/routes/transactions.py, app/routes/returns.py (request checks)    *)
(*   app/utils/time_utils.py, app/utils/financial.py (helpers)             *)
(*                                                                         *)
(* Money is Decimal in the code; the model uses integers (whole rupees),   *)
(* on which Decimal arithmetic is exact.  A datetime is an integer instant *)
(* (one unit = one second); a timestamp string is a record [t, form]: the  *)
(* instant it spells and the way it is spelled.                            *)
(***************************************************************************)
EXTENDS Integers, Sequences, FiniteSets, TLC

VARIABLES
    pc,                  \* the position in the running function: "loop" in the
                         \* loop of the validator and of the filters, "build" in
                         \* build_transactions, "process" and "buckets" in
                         \* calculate_returns, "filter_route" and "returns_route"
                         \* in the request handlers; "done" at return, "raised"
                         \* when it ends in an exception, "rejected" when the
                         \* request handler answers with an error
    wage,                \* validate_transactions: wage
    transactions,        \* enriched input list (validator, pre-enriched filter)
    raw_transactions,    \* raw input list (raw filter)
    q_rules,             \* Q rules, in input order
    p_rules,             \* P rules, in input order
    k_ranges,            \* K ranges, in input order
    i,                   \* number of input records already processed
    valid,               \* local list valid
    invalid,             \* local list invalid
    seen_timestamps,     \* local set seen_timestamps
    cumulative_remanent, \* validate_transactions: cumulative_remanent
    nps_limit_reached,   \* validate_transactions: nps_limit_reached
    expenses,            \* build_transactions: the input list
    total_expense,       \* build_transactions: total_expense
    total_remanent,      \* build_transactions: total_remanent
    total_ceiling,       \* build_transactions, _process_raw_transactions
    total_amount,        \* _process_raw_transactions: total_amount
    enriched,            \* _process_raw_transactions: enriched
    savings_by_dates,    \* calculate_returns: savings_by_dates
    annual_wage,         \* calculate_returns: annual_wage
    include_tax_benefit, \* calculate_returns: include_tax_benefit
    run,                 \* how many times the caller has started the engine
    error,               \* the error message of the response, "" when none
    other                \* the locals of a second invocation that is not
                         \* running at the moment, NoFrame when there is none

\* the state of build_transactions, of calculate_returns and of their callers
later_vars == <<expenses, total_expense, total_remanent, total_ceiling,
                total_amount, enriched, savings_by_dates, annual_wage,
                include_tax_benefit, run, error, other>>

vars == <<pc, wage, transactions, raw_transactions, q_rules, p_rules, k_ranges,
          i, valid, invalid, seen_timestamps, cumulative_remanent,
          nps_limit_reached, later_vars>>

----------------------------------------------------------------------------
(* Bounds of the model *)

\* the rule windows and the filtered transactions lie in 0 .. MaxTime
MaxTime == 1
\* longest batch given to validate_transactions
MaxBatch == 3
\* longest Q, P and K list
MaxRules == 3
\* longest batch given to the temporal filters, to build_transactions and to
\* calculate_returns
MaxTxns == 2
\* build_transactions is run on every single amount in -MaxAmount .. MaxAmount
MaxAmount == 250

(* Program constants *)

HUNDRED == 100
ZERO == 0
NPS_MAX_ABSOLUTE == 200000
\* NPS_WAGE_FRACTION = Decimal("0.10"), kept as a percentage
NPS_WAGE_PERCENT == 10
\* the tax slab boundaries _SLAB_7L, _SLAB_10L, _SLAB_12L, _SLAB_15L
SLAB_7L == 700000
SLAB_10L == 1000000
SLAB_12L == 1200000
SLAB_15L == 1500000

----------------------------------------------------------------------------
(* Generic helpers *)

Min(a, b) == IF a <= b THEN a ELSE b

\* all sequences over S of length 0 .. n
SeqsUpTo(S, n) == UNION {[1 .. m -> S] : m \in 0 .. n}

RECURSIVE SumSeq(_)
SumSeq(s) == IF s = <<>> THEN 0 ELSE Head(s) + SumSeq(Tail(s))

\* no second invocation
NoFrame == [pc |-> "none"]

\* build_transactions and calculate_returns have not been called, and there is
\* no second invocation
LaterIdle ==
    /\ expenses = <<>>
    /\ total_expense = ZERO /\ total_remanent = ZERO /\ total_ceiling = ZERO
    /\ total_amount = ZERO
    /\ enriched = <<>>
    /\ savings_by_dates = <<>>
    /\ annual_wage = 0
    /\ include_tax_benefit = FALSE
    /\ run = 1
    /\ error = ""
    /\ other = NoFrame

----------------------------------------------------------------------------
(* app/utils/time_utils.py *)

Time == 0 .. MaxTime

\* Instants below 0 stand for datetimes whose year is below 1000.
YearBelow1000(dt) == dt < 0

(* The spellings of a timestamp string:
     "canon"      zero-padded YYYY-MM-DD HH:MM:SS
     "loose"      fields not zero-padded (2023-1-5 8:9:45); strptime accepts it
     "short_year" the year spelled with fewer than four digits; strptime's %Y
                  wants four, so it is rejected
     "garbage"    anything else
     "empty"      the empty string                                           *)
ParsableForms == {"canon", "loose"}

\* the string ""
EmptyString == [t |-> 0, form |-> "empty"]

\* parse_timestamp raises ValueError exactly when this is FALSE
is_valid_timestamp(raw) == raw.form \in ParsableForms

\* parse_timestamp on a parsable string: the instant, whatever the spelling
parse_timestamp(raw) == raw.t

\* strftime("%Y-%m-%d %H:%M:%S"): zero-padded fields, but (glibc, CPython
\* before 3.13) %Y is not padded, so a year below 1000 comes out short.
format_timestamp(dt) ==
    [t |-> dt, form |-> IF YearBelow1000(dt) THEN "short_year" ELSE "canon"]

is_within_range(dt, start, end) == start <= dt /\ dt <= end

----------------------------------------------------------------------------
(* app/services/validation_service.py *)

\* the fixed part of each rejection message
MsgInvalidTimestamp == "Invalid timestamp format"
MsgRemanent == "remanent must be >= 0"
MsgCeiling == "ceiling must be >= amount"
MsgDuplicateTimestamp == "Duplicate timestamp"
MsgLimitAlready == "Annual NPS investable limit already exceeded"
MsgLimitAdding == "Adding remanent would exceed annual NPS investable limit"
NoMessage == "accepted"

\* mutant: the 200000 cap forgotten
max_investable_uncapped(w) == (w * NPS_WAGE_PERCENT) \div 100

\* line 50: min(wage * NPS_WAGE_FRACTION, NPS_MAX_ABSOLUTE)
max_investable(w) == Min((w * NPS_WAGE_PERCENT) \div 100, NPS_MAX_ABSOLUTE)

\* mutant: the ceiling rule is forgotten
validation_verdict_no_ceiling(txn, seen, reached, cumulative, limit) ==
    LET date_str == format_timestamp(txn.date) IN
    IF ~is_valid_timestamp(date_str) THEN MsgInvalidTimestamp
    ELSE IF txn.remanent < ZERO THEN MsgRemanent
    ELSE IF date_str \in seen THEN MsgDuplicateTimestamp
    ELSE IF reached THEN MsgLimitAlready
    ELSE IF cumulative + txn.remanent > limit THEN MsgLimitAdding
    ELSE NoMessage

\* mutant: the ceiling rule tested before the remanent rule
validation_verdict_swapped(txn, seen, reached, cumulative, limit) ==
    LET date_str == format_timestamp(txn.date) IN
    IF ~is_valid_timestamp(date_str) THEN MsgInvalidTimestamp
    ELSE IF txn.ceiling < txn.amount THEN MsgCeiling
    ELSE IF txn.remanent < ZERO THEN MsgRemanent
    ELSE IF date_str \in seen THEN MsgDuplicateTimestamp
    ELSE IF reached THEN MsgLimitAlready
    ELSE IF cumulative + txn.remanent > limit THEN MsgLimitAdding
    ELSE NoMessage

\* lines 56-126: the if/continue chain of one loop iteration; the message of
\* the branch taken, NoMessage when every rule passes
validation_verdict(txn, seen, reached, cumulative, limit) ==
    LET date_str == format_timestamp(txn.date) IN
    IF ~is_valid_timestamp(date_str) THEN MsgInvalidTimestamp
    ELSE IF txn.remanent < ZERO THEN MsgRemanent
    ELSE IF txn.ceiling < txn.amount THEN MsgCeiling
    ELSE IF date_str \in seen THEN MsgDuplicateTimestamp
    ELSE IF reached THEN MsgLimitAlready
    ELSE IF cumulative + txn.remanent > limit THEN MsgLimitAdding
    ELSE NoMessage

\* mutant: the breached flag is never set
breached_after_never(reached, verdict) == reached

\* line 115: nps_limit_reached = True in the branch that detects the breach
breached_after(reached, verdict) == reached \/ verdict = MsgLimitAdding

\* mutant: the accepted timestamp is never remembered
seen_after_never(seen, txn, verdict) == seen

\* line 129: seen_timestamps.add(date_str), only when all rules passed
seen_after(seen, txn, verdict) ==
    IF verdict = NoMessage THEN seen \cup {format_timestamp(txn.date)} ELSE seen

(* The requests the validator is run on.  The route builds each Transaction
   from the caller's own date, amount, ceiling and remanent
   (_parse_transaction_dict), so the three numbers are unrelated. *)
ValidatorShapes ==
    {[amount |-> 150, ceiling |-> 200, remanent |-> r] : r \in {1, 3000, 200000}}
    \cup {[amount |-> 250, ceiling |-> 200, remanent |-> r] : r \in {-1, 1}}

\* a batch of n transactions needs n dates to be free of duplicates
ValidatorDates == 0 .. (MaxBatch - 1)

ValidatorTxns ==
    {[date |-> d, amount |-> s.amount, ceiling |-> s.ceiling, remanent |-> s.remanent] :
        d \in ValidatorDates, s \in ValidatorShapes}
    \cup {[date |-> 0 - 1, amount |-> 150, ceiling |-> 200, remanent |-> 0 - 1]}

Wages == {50000, 3000000}

\* lines 47-53: the locals of validate_transactions before the loop
InitValidate ==
    /\ pc = "loop"
    /\ wage \in Wages
    /\ transactions \in SeqsUpTo(ValidatorTxns, MaxBatch)
    /\ raw_transactions = <<>>
    /\ q_rules = <<>> /\ p_rules = <<>> /\ k_ranges = <<>>
    /\ i = 0
    /\ valid = <<>>
    /\ invalid = <<>>
    /\ seen_timestamps = {}
    /\ cumulative_remanent = ZERO
    /\ nps_limit_reached = FALSE
    /\ LaterIdle

\* mutant: a transaction rejected as a duplicate is dropped, not collected
validate_iteration_drop_duplicate ==
    /\ pc = "loop"
    /\ i < Len(transactions)
    /\ LET txn == transactions[i + 1]
           verdict == validation_verdict(txn, seen_timestamps, nps_limit_reached,
                                         cumulative_remanent, max_investable(wage))
       IN  /\ nps_limit_reached' = breached_after(nps_limit_reached, verdict)
           /\ seen_timestamps' = seen_after(seen_timestamps, txn, verdict)
           /\ IF verdict = NoMessage
              THEN /\ cumulative_remanent' = cumulative_remanent + txn.remanent
                   /\ valid' = Append(valid, txn)
                   /\ invalid' = invalid
              ELSE /\ invalid' =
                         IF verdict = MsgDuplicateTimestamp THEN invalid
                         ELSE Append(invalid, [transaction |-> txn, message |-> verdict])
                   /\ UNCHANGED <<cumulative_remanent, valid>>
    /\ i' = i + 1
    /\ UNCHANGED <<pc, wage, transactions, raw_transactions, q_rules, p_rules, k_ranges>>
    /\ UNCHANGED later_vars

\* lines 55-131: one iteration of the loop over transactions
validate_iteration ==
    /\ pc = "loop"
    /\ i < Len(transactions)
    /\ LET txn == transactions[i + 1]
           verdict == validation_verdict(txn, seen_timestamps, nps_limit_reached,
                                         cumulative_remanent, max_investable(wage))
       IN  /\ nps_limit_reached' = breached_after(nps_limit_reached, verdict)
           /\ seen_timestamps' = seen_after(seen_timestamps, txn, verdict)
           /\ IF verdict = NoMessage
              THEN /\ cumulative_remanent' = cumulative_remanent + txn.remanent
                   /\ valid' = Append(valid, txn)
                   /\ invalid' = invalid
              ELSE /\ invalid' = Append(invalid, [transaction |-> txn, message |-> verdict])
                   /\ UNCHANGED <<cumulative_remanent, valid>>
    /\ i' = i + 1
    /\ UNCHANGED <<pc, wage, transactions, raw_transactions, q_rules, p_rules, k_ranges>>
    /\ UNCHANGED later_vars

\* line 133: return ValidationResult(valid, invalid)
validate_return ==
    /\ pc = "loop"
    /\ i = Len(transactions)
    /\ pc' = "done"
    /\ UNCHANGED <<wage, transactions, raw_transactions, q_rules, p_rules, k_ranges,
                   i, valid, invalid, seen_timestamps, cumulative_remanent,
                   nps_limit_reached>>
    /\ UNCHANGED later_vars

NextValidate == validate_iteration \/ validate_return

SpecValidate == InitValidate /\ [][NextValidate]_vars

----------------------------------------------------------------------------
(* app/utils/financial.py *)

\* mutant: round down and add one hundred
compute_ceiling_next(amount) == ((amount \div HUNDRED) + 1) * HUNDRED

\* (amount / 100).to_integral_value(ROUND_CEILING) * 100; \div rounds down
compute_ceiling(amount) == (0 - ((0 - amount) \div HUNDRED)) * HUNDRED

compute_remanent(ceiling, amount) == ceiling - amount

(* The tax functions.  Wages and invested sums are whole rupees; 10% of a wage
   has one decimal, so does the income left after the deduction, and a band of
   it taken at 15% has three.  These Decimals are kept exact in fixed point:
   deductions and incomes in tenths of a rupee, a band taken at a percentage
   in thousandths (tenths times the percentage), a tax in hundredths. *)

\* a whole number of rupees, in tenths
tenths(rupees) == rupees * 10

\* a whole number of rupees, in hundredths
hundredths(rupees) == rupees * 100

\* mutant: quantize rounding down
quantize_cents_down(thousandths) == thousandths \div 10

\* line 89: quantize(Decimal("0.01"), rounding=ROUND_HALF_UP), of a value >= 0
\* in thousandths; the result is in hundredths
quantize_cents(thousandths) ==
    (thousandths \div 10) + (IF thousandths % 10 >= 5 THEN 1 ELSE 0)

\* calculate_tax: income in tenths, the tax in hundredths
calculate_tax(income) ==
    IF income <= ZERO THEN ZERO
    ELSE quantize_cents(
            (IF income > tenths(SLAB_7L)
             THEN (Min(income, tenths(SLAB_10L)) - tenths(SLAB_7L)) * 10 ELSE 0)
          + (IF income > tenths(SLAB_10L)
             THEN (Min(income, tenths(SLAB_12L)) - tenths(SLAB_10L)) * 15 ELSE 0)
          + (IF income > tenths(SLAB_12L)
             THEN (Min(income, tenths(SLAB_15L)) - tenths(SLAB_12L)) * 20 ELSE 0)
          + (IF income > tenths(SLAB_15L)
             THEN (income - tenths(SLAB_15L)) * 30 ELSE 0))

\* compute_nps_deduction: min(invested, wage * 0.10, 200000), in tenths
compute_nps_deduction(invested, w) ==
    Min(Min(tenths(invested), (tenths(w) * NPS_WAGE_PERCENT) \div 100),
        tenths(NPS_MAX_ABSOLUTE))

\* mutant: the two taxes subtracted the wrong way round
compute_tax_benefit_swapped(w, deduction) ==
    calculate_tax(tenths(w) - deduction) - calculate_tax(tenths(w))

\* compute_tax_benefit: the deduction in tenths, the benefit in hundredths
compute_tax_benefit(w, deduction) ==
    calculate_tax(tenths(w)) - calculate_tax(tenths(w) - deduction)

----------------------------------------------------------------------------
(* app/services/temporal_service.py: the shared helpers *)

MsgOutsideK == "Timestamp does not fall within any K validity range."
MsgNegative == "Negative amounts are not allowed"
MsgDuplicate == "Duplicate transaction"

\* the list comprehension of _best_q_rule: the matching rules, in list order
MatchingRules(dt, rules) ==
    SelectSeq(rules, LAMBDA r : is_within_range(dt, r.start, r.end))

\* max(matching, key=lambda r: r.start): Python's max keeps the first of the
\* maximal elements, a later one replaces it only when strictly greater
RECURSIVE MaxByStart(_, _)
MaxByStart(best, rest) ==
    IF rest = <<>> THEN best
    ELSE MaxByStart(IF Head(rest).start > best.start THEN Head(rest) ELSE best,
                    Tail(rest))

\* mutant: the first matching rule, whatever its start
best_q_rule_first(dt, rules) ==
    LET matching == MatchingRules(dt, rules)
    IN  IF matching = <<>> THEN <<>> ELSE <<Head(matching)>>

\* _best_q_rule: Optional[QRule] as a sequence, <<>> for None
best_q_rule(dt, rules) ==
    LET matching == MatchingRules(dt, rules)
    IN  IF matching = <<>> THEN <<>> ELSE <<MaxByStart(Head(matching), Tail(matching))>>

\* mutant: only the first matching P rule is added
RECURSIVE apply_p_rules_first(_, _, _)
apply_p_rules_first(remanent, dt, rules) ==
    IF rules = <<>> THEN remanent
    ELSE IF is_within_range(dt, Head(rules).start, Head(rules).end)
         THEN remanent + Head(rules).extra
         ELSE apply_p_rules_first(remanent, dt, Tail(rules))

\* _apply_p_rules: remanent += rule.extra for every rule containing dt
RECURSIVE apply_p_rules(_, _, _)
apply_p_rules(remanent, dt, rules) ==
    IF rules = <<>> THEN remanent
    ELSE apply_p_rules(IF is_within_range(dt, Head(rules).start, Head(rules).end)
                       THEN remanent + Head(rules).extra ELSE remanent,
                       dt, Tail(rules))

\* mutant: the upper end of a K range is exclusive
in_any_k_open(dt, ranges) ==
    \E n \in 1 .. Len(ranges) : ranges[n].start <= dt /\ dt < ranges[n].end

\* _in_any_k
in_any_k(dt, ranges) ==
    \E n \in 1 .. Len(ranges) : is_within_range(dt, ranges[n].start, ranges[n].end)

\* mutant: the Q override is lost, only the P extras are applied
adjusted_remanent_no_q(remanent, dt, q, p) == apply_p_rules(remanent, dt, p)

\* apply_temporal_filter lines 111-115 (apply_temporal_filter_raw 215-220):
\* the Q override, then the P extras
adjusted_remanent(remanent, dt, q, p) ==
    LET best_q == best_q_rule(dt, q)
    IN  apply_p_rules(IF best_q = <<>> THEN remanent ELSE best_q[1].fixed, dt, p)

----------------------------------------------------------------------------
(* Claims about validate_transactions, checked under SpecValidate *)

\* the transaction the next iteration of the loop handles
NextTxn == transactions[i + 1]

\* an iteration of the loop is the step that advances i
Iterates == i' = i + 1

\* rules 1 to 4 of the validator, said directly of a transaction and of the
\* transactions accepted before it
PassesRulesOneToFour(txn) ==
    /\ is_valid_timestamp(format_timestamp(txn.date))
    /\ txn.remanent >= 0
    /\ txn.ceiling >= txn.amount
    /\ \A n \in 1 .. Len(valid) :
          format_timestamp(valid[n].date) # format_timestamp(txn.date)

\* maxInvestable = min(10% of wage, 200000)
ClaimedLimit == IF wage \div 10 <= 200000 THEN wage \div 10 ELSE 200000

RemanentsOf(txns) == [n \in 1 .. Len(txns) |-> txns[n].remanent]

RejectedOnce == valid' = valid /\ Len(invalid') = Len(invalid) + 1
                /\ invalid'[Len(invalid')].transaction = NextTxn
                /\ \A n \in 1 .. Len(invalid) : invalid'[n] = invalid[n]

\* C1: once a transaction is rejected by the cumulative-limit rule the batch is
\* LIMIT_BREACHED for good: the flag is set by that rejection and never
\* cleared, every later transaction goes to invalid whatever its remanent,
\* and valid never grows again.
C1_StickyBreach ==
    [][ /\ (Iterates /\ ~nps_limit_reached /\ PassesRulesOneToFour(NextTxn)
            /\ cumulative_remanent + NextTxn.remanent > ClaimedLimit)
           => (nps_limit_reached' /\ RejectedOnce)
        /\ nps_limit_reached
           => (nps_limit_reached' /\ valid' = valid /\ (Iterates => RejectedOnce))
      ]_vars

\* the spec's example has run: wage 50000, remanents 3000, 3000, 1 on three
\* dates; the second breaches, the third is rejected although 3000 + 1 fits
C1_Witness ==
    /\ pc = "done" /\ wage = 50000
    /\ RemanentsOf(transactions) = <<3000, 3000, 1>>
    /\ \A n \in 1 .. 3 : transactions[n].ceiling >= transactions[n].amount
    /\ Cardinality({transactions[n].date : n \in 1 .. 3}) = 3
    /\ valid = <<transactions[1]>>
    /\ Len(invalid) = 2 /\ nps_limit_reached

\* C2: the running sum is the sum of the accepted remanents, never above
\* min(10% of wage, 200000); while not breached a transaction passing rules
\* 1-4 is accepted exactly when running sum + remanent <= that limit.
C2_RunningSum ==
    /\ [](/\ cumulative_remanent = SumSeq(RemanentsOf(valid))
          /\ cumulative_remanent <= ClaimedLimit)
    /\ [][ (Iterates /\ ~nps_limit_reached /\ PassesRulesOneToFour(NextTxn))
           => /\ (valid' = Append(valid, NextTxn))
                 <=> (cumulative_remanent + NextTxn.remanent <= ClaimedLimit)
              /\ valid' # valid
                 => cumulative_remanent' = cumulative_remanent + NextTxn.remanent
              /\ valid' = valid => cumulative_remanent' = cumulative_remanent
         ]_vars

\* the limit was reached exactly, at the 200000 cap, with two accepted
\* transactions and a rejected one in between
C2_Witness ==
    /\ pc = "done" /\ wage = 3000000
    /\ cumulative_remanent = 200000
    /\ Len(valid) >= 1 /\ Len(invalid) >= 1

\* the first rule, in the order 1..5, that a transaction fails; rule 5 has
\* one message for the breaching transaction and one for those after it
FirstFailingMessage(txn) ==
    IF ~is_valid_timestamp(format_timestamp(txn.date)) THEN MsgInvalidTimestamp
    ELSE IF ~(txn.remanent >= 0) THEN MsgRemanent
    ELSE IF ~(txn.ceiling >= txn.amount) THEN MsgCeiling
    ELSE IF ~PassesRulesOneToFour(txn) THEN MsgDuplicateTimestamp
    ELSE IF nps_limit_reached THEN MsgLimitAlready
    ELSE IF cumulative_remanent + txn.remanent > ClaimedLimit THEN MsgLimitAdding
    ELSE NoMessage

\* C3: the five rules are evaluated in order and short-circuit: a rejected
\* transaction is appended to invalid exactly once, with the message of the
\* first rule it fails, and is not appended to valid; a transaction failing
\* no rule is appended to valid only.
C3_RuleOrder ==
    [][ Iterates =>
          IF FirstFailingMessage(NextTxn) = NoMessage
          THEN valid' = Append(valid, NextTxn) /\ invalid' = invalid
          ELSE /\ valid' = valid
               /\ invalid' = Append(invalid, [transaction |-> NextTxn,
                                    message |-> FirstFailingMessage(NextTxn)])
      ]_vars

\* a transaction with remanent < 0 and ceiling < amount was rejected for its
\* remanent, and one with remanent >= 0 and ceiling < amount for its ceiling
C3_Witness ==
    /\ pc = "done"
    /\ \E m, n \in 1 .. Len(invalid) :
          /\ invalid[m].transaction.remanent < 0
          /\ invalid[m].transaction.ceiling < invalid[m].transaction.amount
          /\ invalid[m].message = MsgRemanent
          /\ invalid[n].transaction.remanent >= 0
          /\ invalid[n].transaction.ceiling < invalid[n].transaction.amount
          /\ invalid[n].message = MsgCeiling
    /\ \E n \in 1 .. Len(invalid) : invalid[n].message = MsgInvalidTimestamp

\* C4 as stated: a transaction whose serialized timestamp equals that of any
\* earlier transaction of the batch is placed in invalid.
C4_AnyEarlierDuplicateInvalid ==
    [][ (Iterates /\ \E n \in 1 .. i :
            format_timestamp(transactions[n].date) = format_timestamp(NextTxn.date))
        => (valid' = valid /\ Len(invalid') = Len(invalid) + 1)
      ]_vars

\* C4 as amended: a transaction whose serialized timestamp equals that of an
\* earlier accepted transaction of the batch is placed in invalid, and valid
\* never holds two transactions with the same serialized timestamp.
C4_AcceptedDuplicateInvalid ==
    /\ [][ (Iterates /\ \E n \in 1 .. Len(valid) :
               format_timestamp(valid[n].date) = format_timestamp(NextTxn.date))
           => (valid' = valid /\ Len(invalid') = Len(invalid) + 1
               /\ invalid'[Len(invalid')].transaction = NextTxn)
         ]_vars
    /\ [](\A m, n \in 1 .. Len(valid) :
             format_timestamp(valid[m].date) = format_timestamp(valid[n].date) => m = n)

\* a repeat of an accepted timestamp was rejected as a duplicate, while a repeat
\* of a rejected one was accepted
C4_Witness ==
    /\ pc = "done"
    /\ \E n \in 1 .. Len(invalid) : invalid[n].message = MsgDuplicateTimestamp
    /\ \E n \in 1 .. Len(invalid), m \in 1 .. Len(valid) :
          /\ invalid[n].transaction.date = valid[m].date
          /\ invalid[n].message = MsgCeiling

----------------------------------------------------------------------------
(* The requests the temporal filters are run on *)

Windows == {w \in [start : Time, end : Time] : w.start <= w.end}
WindowLists == SeqsUpTo(Windows, MaxRules)
WholeWindow == <<[start |-> 0, end |-> MaxTime]>>
FirstInstant == <<[start |-> 0, end |-> 0]>>

\* the n-th Q rule of a request fixes -10, 0, 10, ...; the n-th P rule adds
\* 10, 20, 30, ...
QRulesOn(ws) ==
    [n \in 1 .. Len(ws) |->
        [fixed |-> 10 * (n - 2), start |-> ws[n].start, end |-> ws[n].end]]
PRulesOn(ws) ==
    [n \in 1 .. Len(ws) |->
        [extra |-> 10 * n, start |-> ws[n].start, end |-> ws[n].end]]

QBase == {<<>>, QRulesOn(WholeWindow)}
PBase == {<<>>, PRulesOn(WholeWindow)}

\* every Q list, every P list and every K list, each with a few of the others
RuleSets ==
    {[q |-> QRulesOn(ws), p |-> pb, k |-> WholeWindow] : ws \in WindowLists, pb \in PBase}
    \cup {[q |-> qb, p |-> PRulesOn(ws), k |-> WholeWindow] : ws \in WindowLists, qb \in QBase}
    \cup {[q |-> qb, p |-> pb, k |-> ws] : ws \in WindowLists, qb \in QBase, pb \in PBase}

\* the rule sets the longer batches are run with
FewRuleSets == {[q |-> qb, p |-> pb, k |-> FirstInstant] : qb \in QBase, pb \in PBase}

\* enriched transactions as build_transactions makes them
FilterTxns ==
    {[date |-> d, amount |-> a, ceiling |-> compute_ceiling(a),
      remanent |-> compute_remanent(compute_ceiling(a), a)] : d \in Time, a \in {100, 150}}

RawDates == {[t |-> d, form |-> f] : d \in Time, f \in ParsableForms}
RawRecords ==
    {[date |-> s, amount |-> a] : s \in RawDates, a \in {-10, 100, 150}}
    \cup {[date |-> [t |-> 0, form |-> "garbage"], amount |-> 150]}

----------------------------------------------------------------------------
(* app/services/temporal_service.py: apply_temporal_filter *)

\* lines 104-105: the locals of apply_temporal_filter before the loop
InitFilter ==
    /\ pc = "loop"
    /\ \E r \in RuleSets \cup FewRuleSets :
          /\ q_rules = r.q /\ p_rules = r.p /\ k_ranges = r.k
          /\ transactions \in
                IF r \in FewRuleSets THEN SeqsUpTo(FilterTxns, MaxTxns)
                ELSE [1 .. 1 -> FilterTxns]
    /\ raw_transactions = <<>>
    /\ wage = 0
    /\ i = 0
    /\ valid = <<>>
    /\ invalid = <<>>
    /\ seen_timestamps = {}
    /\ cumulative_remanent = ZERO
    /\ nps_limit_reached = FALSE
    /\ LaterIdle

\* mutant: the adjusted remanent is written back into the input list
filter_iteration_in_place ==
    /\ pc = "loop"
    /\ i < Len(transactions)
    /\ LET txn == transactions[i + 1]
           dt == txn.date
           adjusted == [date |-> txn.date, amount |-> txn.amount,
                        ceiling |-> txn.ceiling,
                        remanent |-> adjusted_remanent(txn.remanent, dt, q_rules, p_rules)]
       IN  /\ transactions' = [transactions EXCEPT ![i + 1] = adjusted]
           /\ IF ~in_any_k(dt, k_ranges)
              THEN /\ invalid' = Append(invalid, [transaction |-> adjusted,
                                                  message |-> MsgOutsideK])
                   /\ valid' = valid
              ELSE /\ valid' = Append(valid, adjusted)
                   /\ invalid' = invalid
    /\ i' = i + 1
    /\ UNCHANGED <<pc, wage, raw_transactions, q_rules, p_rules,
                   k_ranges, seen_timestamps, cumulative_remanent, nps_limit_reached>>
    /\ UNCHANGED later_vars

\* lines 107-135: one iteration of the loop over transactions
filter_iteration ==
    /\ pc = "loop"
    /\ i < Len(transactions)
    /\ LET txn == transactions[i + 1]
           dt == txn.date
           adjusted == [date |-> txn.date, amount |-> txn.amount,
                        ceiling |-> txn.ceiling,
                        remanent |-> adjusted_remanent(txn.remanent, dt, q_rules, p_rules)]
       IN  IF ~in_any_k(dt, k_ranges)
           THEN /\ invalid' = Append(invalid, [transaction |-> adjusted,
                                               message |-> MsgOutsideK])
                /\ valid' = valid
           ELSE /\ valid' = Append(valid, adjusted)
                /\ invalid' = invalid
    /\ i' = i + 1
    /\ UNCHANGED <<pc, wage, transactions, raw_transactions, q_rules, p_rules,
                   k_ranges, seen_timestamps, cumulative_remanent, nps_limit_reached>>
    /\ UNCHANGED later_vars

\* line 137: return TemporalResult(valid, invalid)
filter_return ==
    /\ pc = "loop"
    /\ i = Len(transactions)
    /\ pc' = "done"
    /\ UNCHANGED <<wage, transactions, raw_transactions, q_rules, p_rules, k_ranges,
                   i, valid, invalid, seen_timestamps, cumulative_remanent,
                   nps_limit_reached>>
    /\ UNCHANGED later_vars

NextFilter == filter_iteration \/ filter_return

SpecFilter == InitFilter /\ [][NextFilter]_vars

\* lines 79-105: the caller gives the valid list of the first call back to
\* apply_temporal_filter, with the same rules; the locals start afresh
refilter_call ==
    /\ pc = "done"
    /\ run = 1
    /\ transactions' = valid
    /\ valid' = <<>>
    /\ invalid' = <<>>
    /\ i' = 0
    /\ run' = 2
    /\ pc' = "loop"
    /\ UNCHANGED <<wage, raw_transactions, q_rules, p_rules, k_ranges,
                   seen_timestamps, cumulative_remanent, nps_limit_reached,
                   expenses, total_expense, total_remanent, total_ceiling,
                   total_amount, enriched, savings_by_dates, annual_wage,
                   include_tax_benefit, error, other>>

NextRefilter == filter_iteration \/ filter_return \/ refilter_call

SpecRefilter == InitFilter /\ [][NextRefilter]_vars

----------------------------------------------------------------------------
(* app/services/temporal_service.py: apply_temporal_filter_raw *)

\* mutant: the duplicate check keyed by the string as received
duplicate_key_raw(date_str) == date_str

\* lines 184-185: norm_date = format_timestamp(parse_timestamp(date_str))
duplicate_key(date_str) == format_timestamp(parse_timestamp(date_str))

\* the adjusted remanent of a raw record: steps 3 to 5, lines 210-220
raw_remanent(raw, q, p) ==
    LET ceiling == compute_ceiling(raw.amount)
    IN  adjusted_remanent(compute_remanent(ceiling, raw.amount),
                          parse_timestamp(raw.date), q, p)

\* mutant: a record whose adjusted remanent is 0 is not dropped
raw_verdict_keep_zero(raw, seen, q, p, k) ==
    IF raw.amount < ZERO THEN MsgNegative
    ELSE IF duplicate_key(raw.date) \in seen THEN MsgDuplicate
    ELSE IF ~in_any_k(parse_timestamp(raw.date), k) THEN MsgOutsideK
    ELSE NoMessage

\* mutant: the duplicate check made before the sign check
raw_verdict_duplicate_first(raw, seen, q, p, k) ==
    IF duplicate_key(raw.date) \in seen THEN MsgDuplicate
    ELSE IF raw.amount < ZERO THEN MsgNegative
    ELSE IF raw_remanent(raw, q, p) = ZERO THEN "dropped"
    ELSE IF ~in_any_k(parse_timestamp(raw.date), k) THEN MsgOutsideK
    ELSE NoMessage

\* mutant: K gating made before the zero-remanent drop
raw_verdict_gate_first(raw, seen, q, p, k) ==
    IF raw.amount < ZERO THEN MsgNegative
    ELSE IF duplicate_key(raw.date) \in seen THEN MsgDuplicate
    ELSE IF ~in_any_k(parse_timestamp(raw.date), k) THEN MsgOutsideK
    ELSE IF raw_remanent(raw, q, p) = ZERO THEN "dropped"
    ELSE NoMessage

\* lines 187-239: the if/continue chain of one iteration; the message of the
\* rejection, "dropped" for the silent drop, NoMessage for a valid record
raw_verdict(raw, seen, q, p, k) ==
    IF raw.amount < ZERO THEN MsgNegative
    ELSE IF duplicate_key(raw.date) \in seen THEN MsgDuplicate
    ELSE IF raw_remanent(raw, q, p) = ZERO THEN "dropped"
    ELSE IF ~in_any_k(parse_timestamp(raw.date), k) THEN MsgOutsideK
    ELSE NoMessage

\* lines 177-179: the locals of apply_temporal_filter_raw before the loop
InitFilterRaw ==
    /\ pc = "loop"
    /\ \E r \in RuleSets \cup FewRuleSets :
          /\ q_rules = r.q /\ p_rules = r.p /\ k_ranges = r.k
          /\ raw_transactions \in
                IF r \in FewRuleSets THEN SeqsUpTo(RawRecords, MaxTxns)
                ELSE [1 .. 1 -> RawRecords]
    /\ transactions = <<>>
    /\ wage = 0
    /\ i = 0
    /\ valid = <<>>
    /\ invalid = <<>>
    /\ seen_timestamps = {}
    /\ cumulative_remanent = ZERO
    /\ nps_limit_reached = FALSE
    /\ LaterIdle

\* lines 181-249: one iteration of the loop over raw_transactions
filter_raw_iteration ==
    /\ pc = "loop"
    /\ i < Len(raw_transactions)
    /\ is_valid_timestamp(raw_transactions[i + 1].date)
    /\ LET raw == raw_transactions[i + 1]
           amount == raw.amount
           dt == parse_timestamp(raw.date)
           ceiling == compute_ceiling(amount)
           verdict == raw_verdict(raw, seen_timestamps, q_rules, p_rules, k_ranges)
       IN  /\ seen_timestamps' =
                 IF verdict \in {MsgNegative, MsgDuplicate} THEN seen_timestamps
                 ELSE seen_timestamps \cup {duplicate_key(raw.date)}
           /\ valid' =
                 IF verdict = NoMessage
                 THEN Append(valid, [date |-> dt, amount |-> amount, ceiling |-> ceiling,
                                     remanent |-> raw_remanent(raw, q_rules, p_rules),
                                     in_k_period |-> TRUE])
                 ELSE valid
           /\ invalid' =
                 IF verdict \in {MsgNegative, MsgDuplicate, MsgOutsideK}
                 THEN Append(invalid, [date |-> dt, amount |-> amount, message |-> verdict])
                 ELSE invalid
    /\ i' = i + 1
    /\ UNCHANGED <<pc, wage, transactions, raw_transactions, q_rules, p_rules,
                   k_ranges, cumulative_remanent, nps_limit_reached>>
    /\ UNCHANGED later_vars

\* mutant: a record whose timestamp does not parse is skipped
filter_raw_raise_skip ==
    /\ pc = "loop"
    /\ i < Len(raw_transactions)
    /\ ~is_valid_timestamp(raw_transactions[i + 1].date)
    /\ i' = i + 1
    /\ UNCHANGED <<pc, wage, transactions, raw_transactions, q_rules, p_rules,
                   k_ranges, valid, invalid, seen_timestamps, cumulative_remanent,
                   nps_limit_reached, later_vars>>

\* line 184: parse_timestamp raises ValueError; nothing is returned
filter_raw_raise ==
    /\ pc = "loop"
    /\ i < Len(raw_transactions)
    /\ ~is_valid_timestamp(raw_transactions[i + 1].date)
    /\ pc' = "raised"
    /\ UNCHANGED <<wage, transactions, raw_transactions, q_rules, p_rules, k_ranges,
                   i, valid, invalid, seen_timestamps, cumulative_remanent,
                   nps_limit_reached>>
    /\ UNCHANGED later_vars

\* line 251: return FilterResult(valid, invalid)
filter_raw_return ==
    /\ pc = "loop"
    /\ i = Len(raw_transactions)
    /\ pc' = "done"
    /\ UNCHANGED <<wage, transactions, raw_transactions, q_rules, p_rules, k_ranges,
                   i, valid, invalid, seen_timestamps, cumulative_remanent,
                   nps_limit_reached>>
    /\ UNCHANGED later_vars

NextFilterRaw == filter_raw_iteration \/ filter_raw_raise \/ filter_raw_return

SpecFilterRaw == InitFilterRaw /\ [][NextFilterRaw]_vars

----------------------------------------------------------------------------
(* Claims about apply_temporal_filter, checked under SpecFilter *)

Reverse(s) == [n \in 1 .. Len(s) |-> s[Len(s) + 1 - n]]

\* the positions of the rules whose window, both ends included, contains dt
Containing(dt, rules) ==
    {n \in 1 .. Len(rules) : rules[n].start <= dt /\ dt <= rules[n].end}

\* the Q rule the claim selects: among the containing rules the latest start,
\* and among those the one listed first
ClaimedQ(dt, rules) ==
    CHOOSE n \in Containing(dt, rules) :
        \A m \in Containing(dt, rules) :
            \/ rules[m].start < rules[n].start
            \/ (rules[m].start = rules[n].start /\ n <= m)

ClaimedBase(remanent, dt) ==
    IF Containing(dt, q_rules) = {} THEN remanent
    ELSE q_rules[ClaimedQ(dt, q_rules)].fixed

ClaimedExtras(dt) ==
    SumSeq([n \in 1 .. Len(p_rules) |->
              IF n \in Containing(dt, p_rules) THEN p_rules[n].extra ELSE 0])

DistinctStarts(rules) ==
    \A m, n \in 1 .. Len(rules) : rules[m].start = rules[n].start => m = n

\* the entry the iteration just appended, as a transaction
AppendedTxn ==
    IF valid' # valid THEN valid'[Len(valid')]
    ELSE invalid'[Len(invalid')].transaction

\* C5: the Q rule applied to a timestamp is the containing rule with the
\* latest start, the first listed among equal starts; with distinct starts it
\* is the same rule whatever the order of the list; the remanent becomes
\* that rule's fixed value before the P extras, and stays as it was when no Q
\* rule contains the timestamp.
C5_QSelection ==
    /\ [](\A dt \in Time :
            /\ best_q_rule(dt, q_rules) =
                  IF Containing(dt, q_rules) = {} THEN <<>>
                  ELSE <<q_rules[ClaimedQ(dt, q_rules)]>>
            /\ DistinctStarts(q_rules)
                  => best_q_rule(dt, Reverse(q_rules)) = best_q_rule(dt, q_rules))
    /\ [][ Iterates
           => AppendedTxn.remanent - ClaimedExtras(NextTxn.date)
                 = ClaimedBase(NextTxn.remanent, NextTxn.date) ]_vars

\* two Q rules contain the timestamp of a processed transaction, the later
\* start is listed last and is the one applied; the list has a tie as well
C5_Witness ==
    /\ pc = "done" /\ Len(q_rules) = 3 /\ p_rules = <<>> /\ Len(valid) = 1
    /\ q_rules[1].start < q_rules[2].start
    /\ q_rules[3].start = q_rules[2].start
    /\ Containing(valid[1].date, q_rules) = {1, 2, 3}
    /\ valid[1].remanent = q_rules[2].fixed
    /\ valid[1].remanent # transactions[1].remanent

\* C6: P rules are cumulative and applied after Q: the adjusted remanent is the
\* base value (the selected Q rule's fixed value, else the incoming remanent)
\* plus the extras of every P rule containing the timestamp; the other fields
\* are copied.
C6_PCumulative ==
    [][ Iterates
        => /\ AppendedTxn.remanent =
                 ClaimedBase(NextTxn.remanent, NextTxn.date) + ClaimedExtras(NextTxn.date)
           /\ AppendedTxn.date = NextTxn.date
           /\ AppendedTxn.amount = NextTxn.amount
           /\ AppendedTxn.ceiling = NextTxn.ceiling ]_vars

\* three P rules with extras 10, 20, 30 contain the timestamp and a Q rule
\* fixes the base: the result is the fixed value plus 60
C6_Witness ==
    /\ pc = "done" /\ Len(p_rules) = 3 /\ Len(q_rules) = 1 /\ Len(valid) = 1
    /\ Containing(valid[1].date, p_rules) = {1, 2, 3}
    /\ <<p_rules[1].extra, p_rules[2].extra, p_rules[3].extra>> = <<10, 20, 30>>
    /\ valid[1].remanent = q_rules[1].fixed + 60

InSomeK(dt) ==
    \E n \in 1 .. Len(k_ranges) : k_ranges[n].start <= dt /\ dt <= k_ranges[n].end

\* date, amount and ceiling of a transaction: what the filter copies
Identity(txn) == <<txn.date, txn.amount, txn.ceiling>>

Processed == SubSeq(transactions, 1, i)

\* C7: the output is a partition of the input in input order: valid holds the
\* processed transactions inside some K range (ends included), invalid holds
\* the others, one entry each.
C7_KPartition ==
    /\ Len(valid) + Len(invalid) = i
    /\ [n \in 1 .. Len(valid) |-> Identity(valid[n])]
          = [n \in 1 .. Len(SelectSeq(Processed, LAMBDA t : InSomeK(t.date))) |->
                Identity(SelectSeq(Processed, LAMBDA t : InSomeK(t.date))[n])]
    /\ [n \in 1 .. Len(invalid) |-> Identity(invalid[n].transaction)]
          = [n \in 1 .. Len(SelectSeq(Processed, LAMBDA t : ~InSomeK(t.date))) |->
                Identity(SelectSeq(Processed, LAMBDA t : ~InSomeK(t.date))[n])]
    /\ \A n \in 1 .. Len(invalid) : invalid[n].message = MsgOutsideK

\* a transaction dated on the start and end of the only K range is valid and
\* the one dated one unit after its end is invalid
C7_Witness ==
    /\ pc = "done" /\ Len(k_ranges) = 1 /\ Len(transactions) = 2
    /\ transactions[1].date = k_ranges[1].end + 1
    /\ transactions[2].date = k_ranges[1].start
    /\ transactions[2].date = k_ranges[1].end
    /\ Len(valid) = 1 /\ valid[1].date = transactions[2].date
    /\ Len(invalid) = 1 /\ invalid[1].transaction.date = transactions[1].date

----------------------------------------------------------------------------
(* app/services/transaction_service.py: build_transactions *)

\* the validator and the filters are not running
EarlierIdle ==
    /\ wage = 0
    /\ valid = <<>>
    /\ invalid = <<>>
    /\ seen_timestamps = {}
    /\ cumulative_remanent = ZERO
    /\ nps_limit_reached = FALSE

\* RawExpense records as the parse route makes them: any string, any amount
BuildExpenses ==
    {[timestamp |-> r.date, amount |-> r.amount] : r \in RawRecords}

\* one expense of every amount, and every short batch of a few amounts
BuildRequests ==
    {<<[timestamp |-> [t |-> 0, form |-> "canon"], amount |-> a]>> :
        a \in (0 - MaxAmount) .. MaxAmount}
    \cup SeqsUpTo(BuildExpenses, MaxTxns)

\* lines 51-54: the locals of build_transactions before the loop
InitBuild ==
    /\ pc = "build"
    /\ expenses \in BuildRequests
    /\ transactions = <<>>
    /\ total_expense = ZERO
    /\ total_ceiling = ZERO
    /\ total_remanent = ZERO
    /\ i = 0
    /\ raw_transactions = <<>>
    /\ q_rules = <<>> /\ p_rules = <<>> /\ k_ranges = <<>>
    /\ EarlierIdle
    /\ total_amount = ZERO
    /\ enriched = <<>>
    /\ savings_by_dates = <<>>
    /\ annual_wage = 0
    /\ include_tax_benefit = FALSE
    /\ run = 1
    /\ error = ""
    /\ other = NoFrame

\* mutant: expenses with a negative amount are left out
build_iteration_skip_negative ==
    /\ pc = "build"
    /\ i < Len(expenses)
    /\ is_valid_timestamp(expenses[i + 1].timestamp)
    /\ LET exp == expenses[i + 1]
           amount == exp.amount
           ceiling == compute_ceiling(amount)
           remanent == compute_remanent(ceiling, amount)
           dt == parse_timestamp(exp.timestamp)
       IN  IF amount < ZERO
           THEN UNCHANGED <<transactions, total_expense, total_ceiling, total_remanent>>
           ELSE /\ transactions' = Append(transactions,
                                          [date |-> dt, amount |-> amount,
                                           ceiling |-> ceiling, remanent |-> remanent])
                /\ total_expense' = total_expense + amount
                /\ total_ceiling' = total_ceiling + ceiling
                /\ total_remanent' = total_remanent + remanent
    /\ i' = i + 1
    /\ UNCHANGED <<pc, wage, raw_transactions, q_rules, p_rules, k_ranges, valid,
                   invalid, seen_timestamps, cumulative_remanent, nps_limit_reached,
                   expenses, total_amount, enriched, savings_by_dates, annual_wage,
                   include_tax_benefit, run, error, other>>

\* lines 56-71: one iteration of the loop over expenses
build_iteration ==
    /\ pc = "build"
    /\ i < Len(expenses)
    /\ is_valid_timestamp(expenses[i + 1].timestamp)
    /\ LET exp == expenses[i + 1]
           amount == exp.amount
           ceiling == compute_ceiling(amount)
           remanent == compute_remanent(ceiling, amount)
           dt == parse_timestamp(exp.timestamp)
       IN  /\ transactions' = Append(transactions,
                                     [date |-> dt, amount |-> amount,
                                      ceiling |-> ceiling, remanent |-> remanent])
           /\ total_expense' = total_expense + amount
           /\ total_ceiling' = total_ceiling + ceiling
           /\ total_remanent' = total_remanent + remanent
    /\ i' = i + 1
    /\ UNCHANGED <<pc, wage, raw_transactions, q_rules, p_rules, k_ranges, valid,
                   invalid, seen_timestamps, cumulative_remanent, nps_limit_reached,
                   expenses, total_amount, enriched, savings_by_dates, annual_wage,
                   include_tax_benefit, run, error, other>>

\* line 60: parse_timestamp raises ValueError; nothing is returned
build_raise ==
    /\ pc = "build"
    /\ i < Len(expenses)
    /\ ~is_valid_timestamp(expenses[i + 1].timestamp)
    /\ pc' = "raised"
    /\ UNCHANGED <<wage, transactions, raw_transactions, q_rules, p_rules, k_ranges,
                   i, valid, invalid, seen_timestamps, cumulative_remanent,
                   nps_limit_reached, later_vars>>

\* lines 73-78: return ParseResult(transactions, totals)
build_return ==
    /\ pc = "build"
    /\ i = Len(expenses)
    /\ pc' = "done"
    /\ UNCHANGED <<wage, transactions, raw_transactions, q_rules, p_rules, k_ranges,
                   i, valid, invalid, seen_timestamps, cumulative_remanent,
                   nps_limit_reached, later_vars>>

NextBuild == build_iteration \/ build_raise \/ build_return

SpecBuild == InitBuild /\ [][NextBuild]_vars

----------------------------------------------------------------------------
(* app/services/return_service.py: calculate_returns *)

\* KRange objects as _parse_k_range makes them: raw_start and raw_end are not
\* passed and keep their default, the empty string
KRangesOn(ws) ==
    [n \in 1 .. Len(ws) |->
        [start |-> ws[n].start, end |-> ws[n].end,
         raw_start |-> EmptyString, raw_end |-> EmptyString]]

\* wages on both sides of every tax slab, one of them with an odd tenth part
TaxWages == {600000, 700000, 800000, 1000000, 1111115, 1200000, 1500000, 2500000}

\* the sums a Q rule fixes as the invested amount of the tax requests
TaxInvested == {0 - 10, 0, 50, 100000, 250000}

\* the wage of the requests that vary the rules and the batch
PlainWage == 800000

\* the record of the tax requests
TaxRecord == [date |-> [t |-> 0, form |-> "canon"], amount |-> 150]

\* the well-formed records that pass the sign check
PlainRecords == {r \in RawRecords : r.amount >= ZERO /\ r.date.form = "canon"}

\* the requests of the filters (one plain record under every rule list, every
\* short batch under a few), at one wage, for the tax-advantaged product;
\* and, for every wage and both products, one record whose remanent a Q rule
\* fixes
ReturnsRequest ==
    \/ \E r \in RuleSets \cup FewRuleSets :
          /\ q_rules = r.q /\ p_rules = r.p /\ k_ranges = KRangesOn(r.k)
          /\ raw_transactions \in
                IF r \in FewRuleSets THEN SeqsUpTo(RawRecords, MaxTxns)
                ELSE [1 .. 1 -> PlainRecords]
          /\ annual_wage = PlainWage
          /\ include_tax_benefit = TRUE
    \/ \E f \in TaxInvested :
          /\ q_rules = <<[fixed |-> f, start |-> 0, end |-> MaxTime]>>
          /\ p_rules = <<>>
          /\ k_ranges = KRangesOn(WholeWindow)
          /\ raw_transactions = <<TaxRecord>>
          /\ annual_wage \in TaxWages
          /\ include_tax_benefit \in BOOLEAN

\* lines 84-87: the locals of _process_raw_transactions before the loop
InitReturns ==
    /\ pc = "process"
    /\ ReturnsRequest
    /\ enriched = <<>>
    /\ total_amount = ZERO
    /\ total_ceiling = ZERO
    /\ seen_timestamps = {}
    /\ i = 0
    /\ savings_by_dates = <<>>
    /\ transactions = <<>>
    /\ wage = 0
    /\ valid = <<>>
    /\ invalid = <<>>
    /\ cumulative_remanent = ZERO
    /\ nps_limit_reached = FALSE
    /\ expenses = <<>>
    /\ total_expense = ZERO
    /\ total_remanent = ZERO
    /\ run = 1
    /\ error = ""
    /\ other = NoFrame

\* mutant: the duplicate check keyed by the string as received
returns_verdict_raw_key(raw, seen) ==
    IF raw.amount < ZERO THEN "negative"
    ELSE IF raw.date \in seen THEN "duplicate"
    ELSE "accepted"

\* lines 95-102: the two silent rejections of _process_raw_transactions
returns_verdict(raw, seen) ==
    IF raw.amount < ZERO THEN "negative"
    ELSE IF duplicate_key(raw.date) \in seen THEN "duplicate"
    ELSE "accepted"

\* mutant: the totals are tracked before the rejections
totals_after_all(amount_so_far, ceiling_so_far, raw, verdict) ==
    <<amount_so_far + raw.amount, ceiling_so_far + compute_ceiling(raw.amount)>>

\* lines 109-110: total_amount and total_ceiling after a record
totals_after(amount_so_far, ceiling_so_far, raw, verdict) ==
    IF verdict = "accepted"
    THEN <<amount_so_far + raw.amount, ceiling_so_far + compute_ceiling(raw.amount)>>
    ELSE <<amount_so_far, ceiling_so_far>>

\* lines 89-120: one iteration of the loop over raw_transactions
process_iteration ==
    /\ pc = "process"
    /\ i < Len(raw_transactions)
    /\ is_valid_timestamp(raw_transactions[i + 1].date)
    /\ LET raw == raw_transactions[i + 1]
           amount == raw.amount
           dt == parse_timestamp(raw.date)
           norm == duplicate_key(raw.date)
           verdict == returns_verdict(raw, seen_timestamps)
           totals == totals_after(total_amount, total_ceiling, raw, verdict)
       IN  /\ seen_timestamps' =
                 IF verdict = "accepted" THEN seen_timestamps \cup {norm}
                 ELSE seen_timestamps
           /\ total_amount' = totals[1]
           /\ total_ceiling' = totals[2]
           /\ enriched' =
                 IF verdict = "accepted"
                 THEN Append(enriched,
                             [date |-> dt, amount |-> amount,
                              ceiling |-> compute_ceiling(amount),
                              remanent |-> raw_remanent(raw, q_rules, p_rules)])
                 ELSE enriched
    /\ i' = i + 1
    /\ UNCHANGED <<pc, wage, transactions, raw_transactions, q_rules, p_rules,
                   k_ranges, valid, invalid, cumulative_remanent, nps_limit_reached,
                   expenses, total_expense, total_remanent, savings_by_dates,
                   annual_wage, include_tax_benefit, run, error, other>>

\* line 92: parse_timestamp raises ValueError; calculate_returns returns nothing
process_raise ==
    /\ pc = "process"
    /\ i < Len(raw_transactions)
    /\ ~is_valid_timestamp(raw_transactions[i + 1].date)
    /\ pc' = "raised"
    /\ UNCHANGED <<wage, transactions, raw_transactions, q_rules, p_rules, k_ranges,
                   i, valid, invalid, seen_timestamps, cumulative_remanent,
                   nps_limit_reached, later_vars>>

\* lines 122 and 203-211: _process_raw_transactions returns, calculate_returns
\* goes on to the loop over k_ranges
process_return ==
    /\ pc = "process"
    /\ i = Len(raw_transactions)
    /\ pc' = "buckets"
    /\ UNCHANGED <<wage, transactions, raw_transactions, q_rules, p_rules, k_ranges,
                   i, valid, invalid, seen_timestamps, cumulative_remanent,
                   nps_limit_reached, later_vars>>

\* mutant: the end of the K range is exclusive
RECURSIVE sum_remanent_in_k_open(_, _)
sum_remanent_in_k_open(txns, k) ==
    IF txns = <<>> THEN ZERO
    ELSE (IF k.start <= Head(txns).date /\ Head(txns).date < k.end
          THEN Head(txns).remanent ELSE 0)
         + sum_remanent_in_k_open(Tail(txns), k)

\* _sum_remanent_in_k
RECURSIVE sum_remanent_in_k(_, _)
sum_remanent_in_k(txns, k) ==
    IF txns = <<>> THEN ZERO
    ELSE (IF is_within_range(Head(txns).date, k.start, k.end)
          THEN Head(txns).remanent ELSE 0)
         + sum_remanent_in_k(Tail(txns), k)

\* mutant: the benefit is computed for every product
tax_benefit_of_any_product(invested, w, include) ==
    IF invested > ZERO
    THEN compute_tax_benefit(w, compute_nps_deduction(invested, w))
    ELSE ZERO

\* lines 151-154: tax_benefit of _compute_savings, in hundredths
tax_benefit_of(invested, w, include) ==
    IF include /\ invested > ZERO
    THEN compute_tax_benefit(w, compute_nps_deduction(invested, w))
    ELSE ZERO

\* lines 156-162: the SavingsByDate entry.  Its profit (lines 147-149), a
\* function of invested, age and inflation alone, is left out.
compute_savings(k, invested, w, include) ==
    [start |-> k.raw_start, end |-> k.raw_end, amount |-> invested,
     tax_benefit |-> tax_benefit_of(invested, w, include)]

\* lines 212-223: one iteration of the loop over k_ranges
returns_bucket ==
    /\ pc = "buckets"
    /\ Len(savings_by_dates) < Len(k_ranges)
    /\ LET k == k_ranges[Len(savings_by_dates) + 1]
           invested == sum_remanent_in_k(enriched, k)
       IN  savings_by_dates' =
              Append(savings_by_dates,
                     compute_savings(k, invested, annual_wage, include_tax_benefit))
    /\ UNCHANGED <<pc, wage, transactions, raw_transactions, q_rules, p_rules,
                   k_ranges, i, valid, invalid, seen_timestamps, cumulative_remanent,
                   nps_limit_reached, expenses, total_expense, total_remanent,
                   total_ceiling, total_amount, enriched, annual_wage,
                   include_tax_benefit, run, error, other>>

\* lines 225-229: return ReturnsResult(totals, savings_by_dates)
returns_return ==
    /\ pc = "buckets"
    /\ Len(savings_by_dates) = Len(k_ranges)
    /\ pc' = "done"
    /\ UNCHANGED <<wage, transactions, raw_transactions, q_rules, p_rules, k_ranges,
                   i, valid, invalid, seen_timestamps, cumulative_remanent,
                   nps_limit_reached, later_vars>>

NextReturns ==
    \/ process_iteration
    \/ process_raise
    \/ process_return
    \/ returns_bucket
    \/ returns_return

SpecReturns == InitReturns /\ [][NextReturns]_vars

----------------------------------------------------------------------------
(* app/routes/transactions.py, app/routes/returns.py: the request handlers
   of the filter and of the returns, from a well-formed JSON body on *)

MsgKRequired == "At least one K range is required."
MsgWagePositive == "'wage' must be a positive number."
MsgExpenseField == "Expense missing field: 'timestamp'"
MsgKTimestamp == "Invalid timestamp. Expected format: YYYY-MM-DD HH:mm:ss"
MsgCalculation == "Calculation error: unexpected keyword argument 'wage'"

\* mutant: the check of the K list is forgotten
k_ranges_missing_never(k) == FALSE

\* transactions.py line 142, returns.py line 97: not k_ranges
k_ranges_missing(k) == k = <<>>

\* a few rule sets, with and without K ranges
RouteRuleSets ==
    FewRuleSets \cup {[q |-> qb, p |-> pb, k |-> <<>>] : qb \in QBase, pb \in PBase}

\* the records of the body of a returns request: keyed by date as the filter
\* wants them, or by timestamp as _parse_expense wants them
RouteRecords ==
    {[date |-> [t |-> 0, form |-> "canon"], amount |-> 150],
     [date |-> [t |-> 0, form |-> "canon"], amount |-> 0 - 10],
     [timestamp |-> [t |-> 0, form |-> "canon"], amount |-> 150],
     [timestamp |-> [t |-> 0, form |-> "canon"], amount |-> 0 - 10]}

\* the "k" list of a request body: the boundaries are strings
KBodyOn(ws) ==
    [n \in 1 .. Len(ws) |->
        [start |-> [t |-> ws[n].start, form |-> "canon"],
         end |-> [t |-> ws[n].end, form |-> "canon"]]]

\* the same list with the end of its last range on a day its month does not
\* have (2023-11-31 23:59:59), which strptime rejects
LenientEnd(ks) ==
    [n \in 1 .. Len(ks) |->
        IF n = Len(ks)
        THEN [start |-> ks[n].start, end |-> [t |-> ks[n].end.t, form |-> "garbage"]]
        ELSE ks[n]]

\* returns.py lines 63-70 and 17-23 of time_utils.py: _parse_k_range raises
\* ValueError on a boundary that parse_timestamp rejects
k_body_parses(ks) ==
    \A n \in 1 .. Len(ks) :
        is_valid_timestamp(ks[n].start) /\ is_valid_timestamp(ks[n].end)

\* nothing has been computed for the request
NothingComputed ==
    /\ i = 0
    /\ transactions = <<>>
    /\ EarlierIdle
    /\ expenses = <<>>
    /\ total_expense = ZERO /\ total_remanent = ZERO /\ total_ceiling = ZERO
    /\ total_amount = ZERO
    /\ enriched = <<>>
    /\ savings_by_dates = <<>>
    /\ run = 1
    /\ error = ""
    /\ other = NoFrame

\* transactions.py lines 131-157: the rules and the records of the body
InitFilterRoute ==
    /\ pc = "filter_route"
    /\ \E r \in RouteRuleSets :
          q_rules = r.q /\ p_rules = r.p /\ k_ranges = r.k
    /\ raw_transactions \in SeqsUpTo(RawRecords, MaxTxns)
    /\ annual_wage = 0
    /\ include_tax_benefit = FALSE
    /\ NothingComputed

\* transactions.py lines 142-143: the 422 answer for an empty K list
filter_route_reject ==
    /\ pc = "filter_route"
    /\ k_ranges_missing(k_ranges)
    /\ pc' = "rejected"
    /\ error' = MsgKRequired
    /\ UNCHANGED <<wage, transactions, raw_transactions, q_rules, p_rules, k_ranges,
                   i, valid, invalid, seen_timestamps, cumulative_remanent,
                   nps_limit_reached, expenses, total_expense, total_remanent,
                   total_ceiling, total_amount, enriched, savings_by_dates,
                   annual_wage, include_tax_benefit, run, other>>

\* transactions.py line 161: the call of apply_temporal_filter_raw
filter_route_call ==
    /\ pc = "filter_route"
    /\ ~k_ranges_missing(k_ranges)
    /\ pc' = "loop"
    /\ UNCHANGED <<wage, transactions, raw_transactions, q_rules, p_rules, k_ranges,
                   i, valid, invalid, seen_timestamps, cumulative_remanent,
                   nps_limit_reached, later_vars>>

\* returns.py lines 79-87 and 139-144, 167-172: the wage, the rules and the
\* records of the body, its "k" list not yet parsed; include_tax_benefit
\* tells returns:nps from returns:index
InitReturnsRoute ==
    /\ pc = "returns_route"
    /\ \E r \in RouteRuleSets :
          /\ q_rules = r.q /\ p_rules = r.p
          /\ k_ranges \in {KBodyOn(r.k), LenientEnd(KBodyOn(r.k))}
    /\ raw_transactions \in SeqsUpTo(RouteRecords, MaxTxns)
    /\ annual_wage \in {0, PlainWage}
    /\ include_tax_benefit \in BOOLEAN
    /\ NothingComputed

\* returns.py lines 88-89: the 422 answer for a wage <= 0
returns_route_reject_wage ==
    /\ pc = "returns_route"
    /\ annual_wage <= 0
    /\ pc' = "rejected"
    /\ error' = MsgWagePositive
    /\ UNCHANGED <<wage, transactions, raw_transactions, q_rules, p_rules, k_ranges,
                   i, valid, invalid, seen_timestamps, cumulative_remanent,
                   nps_limit_reached, expenses, total_expense, total_remanent,
                   total_ceiling, total_amount, enriched, savings_by_dates,
                   annual_wage, include_tax_benefit, run, other>>

\* returns.py line 95: a boundary of the "k" list does not parse; the 422
\* answer
returns_route_reject_timestamp ==
    /\ pc = "returns_route"
    /\ annual_wage > 0
    /\ ~k_body_parses(k_ranges)
    /\ pc' = "rejected"
    /\ error' = MsgKTimestamp
    /\ UNCHANGED <<wage, transactions, raw_transactions, q_rules, p_rules, k_ranges,
                   i, valid, invalid, seen_timestamps, cumulative_remanent,
                   nps_limit_reached, expenses, total_expense, total_remanent,
                   total_ceiling, total_amount, enriched, savings_by_dates,
                   annual_wage, include_tax_benefit, run, other>>

\* returns.py lines 97-98: the 422 answer for an empty K list
returns_route_reject_k ==
    /\ pc = "returns_route"
    /\ annual_wage > 0
    /\ k_ranges_missing(k_ranges)
    /\ pc' = "rejected"
    /\ error' = MsgKRequired
    /\ UNCHANGED <<wage, transactions, raw_transactions, q_rules, p_rules, k_ranges,
                   i, valid, invalid, seen_timestamps, cumulative_remanent,
                   nps_limit_reached, expenses, total_expense, total_remanent,
                   total_ceiling, total_amount, enriched, savings_by_dates,
                   annual_wage, include_tax_benefit, run, other>>

\* returns.py lines 104 and 31-34: _parse_expense finds a record without the
\* key "timestamp"; the 422 answer
returns_route_reject_expense ==
    /\ pc = "returns_route"
    /\ annual_wage > 0
    /\ k_body_parses(k_ranges)
    /\ ~k_ranges_missing(k_ranges)
    /\ \E n \in 1 .. Len(raw_transactions) :
          "timestamp" \notin DOMAIN raw_transactions[n]
    /\ pc' = "rejected"
    /\ error' = MsgExpenseField
    /\ UNCHANGED <<wage, transactions, raw_transactions, q_rules, p_rules, k_ranges,
                   i, valid, invalid, seen_timestamps, cumulative_remanent,
                   nps_limit_reached, expenses, total_expense, total_remanent,
                   total_ceiling, total_amount, enriched, savings_by_dates,
                   annual_wage, include_tax_benefit, run, other>>

\* returns.py lines 104-114 and 148-151 (176-179): the expenses are parsed and
\* calculate_returns(**params, ...) is called with the keywords wage and
\* expenses, which it does not have (its parameters are annual_wage and
\* raw_transactions): TypeError before its body runs, caught, the 500 answer
returns_route_call ==
    /\ pc = "returns_route"
    /\ annual_wage > 0
    /\ k_body_parses(k_ranges)
    /\ ~k_ranges_missing(k_ranges)
    /\ \A n \in 1 .. Len(raw_transactions) :
          "timestamp" \in DOMAIN raw_transactions[n]
    /\ expenses' = raw_transactions
    /\ pc' = "rejected"
    /\ error' = MsgCalculation
    /\ UNCHANGED <<wage, transactions, raw_transactions, q_rules, p_rules, k_ranges,
                   i, valid, invalid, seen_timestamps, cumulative_remanent,
                   nps_limit_reached, total_expense, total_remanent,
                   total_ceiling, total_amount, enriched, savings_by_dates,
                   annual_wage, include_tax_benefit, run, other>>

NextRoutes ==
    \/ filter_route_reject
    \/ filter_route_call
    \/ returns_route_reject_wage
    \/ returns_route_reject_timestamp
    \/ returns_route_reject_k
    \/ returns_route_reject_expense
    \/ returns_route_call

\* the three core functions called directly, and the two request handlers
InitCalls ==
    \/ InitBuild
    \/ InitFilterRaw
    \/ InitReturns
    \/ InitFilterRoute
    \/ InitReturnsRoute

NextCalls == NextBuild \/ NextFilterRaw \/ NextReturns \/ NextRoutes

SpecCalls == InitCalls /\ [][NextCalls]_vars

----------------------------------------------------------------------------
(* Two invocations.  Every call of a service function has its own locals (a
   Python frame): the running invocation has them in the variables above,
   a second one that is not running at the moment has them in other. *)

\* the locals of the running invocation
Frame ==
    [pc |-> pc, wage |-> wage, transactions |-> transactions,
     raw_transactions |-> raw_transactions, q_rules |-> q_rules,
     p_rules |-> p_rules, k_ranges |-> k_ranges, i |-> i, valid |-> valid,
     invalid |-> invalid, seen_timestamps |-> seen_timestamps,
     cumulative_remanent |-> cumulative_remanent,
     nps_limit_reached |-> nps_limit_reached, expenses |-> expenses,
     total_expense |-> total_expense, total_remanent |-> total_remanent,
     total_ceiling |-> total_ceiling, total_amount |-> total_amount,
     enriched |-> enriched, savings_by_dates |-> savings_by_dates,
     annual_wage |-> annual_wage,
     include_tax_benefit |-> include_tax_benefit, run |-> run,
     error |-> error]

\* the locals of an invocation of nothing
BlankFrame ==
    [pc |-> "none", wage |-> 0, transactions |-> <<>>, raw_transactions |-> <<>>,
     q_rules |-> <<>>, p_rules |-> <<>>, k_ranges |-> <<>>, i |-> 0,
     valid |-> <<>>, invalid |-> <<>>, seen_timestamps |-> {},
     cumulative_remanent |-> ZERO, nps_limit_reached |-> FALSE,
     expenses |-> <<>>, total_expense |-> ZERO, total_remanent |-> ZERO,
     total_ceiling |-> ZERO, total_amount |-> ZERO, enriched |-> <<>>,
     savings_by_dates |-> <<>>, annual_wage |-> 0,
     include_tax_benefit |-> FALSE, run |-> 1, error |-> ""]

\* validation_service.py lines 47-53: validate_transactions(wage, batch) entered
ValidateFrame(w, batch) ==
    [BlankFrame EXCEPT !.pc = "loop", !.wage = w, !.transactions = batch]

\* temporal_service.py lines 177-179: apply_temporal_filter_raw entered
FilterRawFrame(r, batch) ==
    [BlankFrame EXCEPT !.pc = "loop", !.q_rules = r.q, !.p_rules = r.p,
                       !.k_ranges = r.k, !.raw_transactions = batch]

\* return_service.py lines 84-87: calculate_returns entered
ReturnsFrame(r, batch, w, include) ==
    [BlankFrame EXCEPT !.pc = "process", !.q_rules = r.q, !.p_rules = r.p,
                       !.k_ranges = KRangesOn(r.k), !.raw_transactions = batch,
                       !.annual_wage = w, !.include_tax_benefit = include]

\* transaction_service.py lines 51-54: build_transactions entered, by a caller
\* that holds the rules for the filter it runs next
BuildFrame(r, batch) ==
    [BlankFrame EXCEPT !.pc = "build", !.q_rules = r.q, !.p_rules = r.p,
                       !.k_ranges = r.k,
                       !.expenses = [n \in 1 .. Len(batch) |->
                                       [timestamp |-> batch[n].date,
                                        amount |-> batch[n].amount]]]

\* the running invocation has the locals f
Loaded(f) ==
    /\ pc = f.pc /\ wage = f.wage /\ transactions = f.transactions
    /\ raw_transactions = f.raw_transactions /\ q_rules = f.q_rules
    /\ p_rules = f.p_rules /\ k_ranges = f.k_ranges /\ i = f.i
    /\ valid = f.valid /\ invalid = f.invalid
    /\ seen_timestamps = f.seen_timestamps
    /\ cumulative_remanent = f.cumulative_remanent
    /\ nps_limit_reached = f.nps_limit_reached /\ expenses = f.expenses
    /\ total_expense = f.total_expense /\ total_remanent = f.total_remanent
    /\ total_ceiling = f.total_ceiling /\ total_amount = f.total_amount
    /\ enriched = f.enriched /\ savings_by_dates = f.savings_by_dates
    /\ annual_wage = f.annual_wage
    /\ include_tax_benefit = f.include_tax_benefit /\ run = f.run
    /\ error = f.error

\* the invocation with the locals f runs next
resume(f) ==
    /\ pc' = f.pc /\ wage' = f.wage /\ transactions' = f.transactions
    /\ raw_transactions' = f.raw_transactions /\ q_rules' = f.q_rules
    /\ p_rules' = f.p_rules /\ k_ranges' = f.k_ranges /\ i' = f.i
    /\ valid' = f.valid /\ invalid' = f.invalid
    /\ seen_timestamps' = f.seen_timestamps
    /\ cumulative_remanent' = f.cumulative_remanent
    /\ nps_limit_reached' = f.nps_limit_reached /\ expenses' = f.expenses
    /\ total_expense' = f.total_expense
    /\ total_remanent' = f.total_remanent
    /\ total_ceiling' = f.total_ceiling /\ total_amount' = f.total_amount
    /\ enriched' = f.enriched /\ savings_by_dates' = f.savings_by_dates
    /\ annual_wage' = f.annual_wage
    /\ include_tax_benefit' = f.include_tax_benefit /\ run' = f.run
    /\ error' = f.error

Finished(f) == f.pc \in {"none", "done", "raised", "rejected"}

\* mutant: the set of seen timestamps belongs to the module, not to the call
switch_invocation_shared_seen ==
    /\ ~Finished(other)
    /\ other' = Frame
    /\ LET f == other IN
       /\ pc' = f.pc /\ wage' = f.wage /\ transactions' = f.transactions
       /\ raw_transactions' = f.raw_transactions /\ q_rules' = f.q_rules
       /\ p_rules' = f.p_rules /\ k_ranges' = f.k_ranges /\ i' = f.i
       /\ valid' = f.valid /\ invalid' = f.invalid
       /\ seen_timestamps' = seen_timestamps
       /\ cumulative_remanent' = f.cumulative_remanent
       /\ nps_limit_reached' = f.nps_limit_reached /\ expenses' = f.expenses
       /\ total_expense' = f.total_expense
       /\ total_remanent' = f.total_remanent
       /\ total_ceiling' = f.total_ceiling /\ total_amount' = f.total_amount
       /\ enriched' = f.enriched /\ savings_by_dates' = f.savings_by_dates
       /\ annual_wage' = f.annual_wage
       /\ include_tax_benefit' = f.include_tax_benefit /\ run' = f.run
       /\ error' = f.error

\* the server (app.py lines 4-7 and 14-15) passes from the handling of one
\* request to the handling of another: each call keeps its own locals
switch_invocation ==
    /\ ~Finished(other)
    /\ other' = Frame
    /\ resume(other)

\* the records and the rules of two interleaved invocations
InterleavedRecords ==
    {[date |-> [t |-> 0, form |-> "canon"], amount |-> 150],
     [date |-> [t |-> 0, form |-> "loose"], amount |-> 140],
     [date |-> [t |-> 0, form |-> "garbage"], amount |-> 150]}
InterleavedTxns ==
    {[date |-> 0, amount |-> 150, ceiling |-> 200, remanent |-> 3000],
     [date |-> 1, amount |-> 150, ceiling |-> 200, remanent |-> 3000],
     [date |-> 1, amount |-> 150, ceiling |-> 200, remanent |-> 50]}
InterleavedRules ==
    {[q |-> <<>>, p |-> <<>>, k |-> FirstInstant],
     [q |-> <<>>, p |-> PRulesOn(WholeWindow), k |-> WholeWindow]}

\* the invocations that are interleaved: validate_transactions at a wage whose
\* limit two of the transactions exceed, apply_temporal_filter_raw and
\* calculate_returns
InterleavedFrames ==
    {ValidateFrame(50000, b) : b \in [1 .. MaxTxns -> InterleavedTxns]}
    \cup {FilterRawFrame(r, b) :
            r \in InterleavedRules, b \in [1 .. MaxTxns -> InterleavedRecords]}
    \cup {ReturnsFrame(r, b, PlainWage, TRUE) :
            r \in InterleavedRules, b \in [1 .. MaxTxns -> InterleavedRecords]}

InitInterleaved ==
    \E f \in InterleavedFrames : Loaded(f) /\ other \in InterleavedFrames \ {f}

\* the loop of the validator reads transactions, the loop of the raw filter
\* raw_transactions
NextInterleaved ==
    \/ raw_transactions = <<>> /\ NextValidate
    \/ transactions = <<>> /\ NextFilterRaw
    \/ NextReturns
    \/ switch_invocation

SpecInterleaved == InitInterleaved /\ [][NextInterleaved]_vars

\* temporal_service.py lines 79-105: apply_temporal_filter entered with the
\* transactions that build_transactions returned
build_then_filter_call ==
    /\ pc = "done"
    /\ run = 1
    /\ expenses # <<>>
    /\ pc' = "loop"
    /\ i' = 0
    /\ run' = 2
    /\ UNCHANGED <<wage, transactions, raw_transactions, q_rules, p_rules, k_ranges,
                   valid, invalid, seen_timestamps, cumulative_remanent,
                   nps_limit_reached, expenses, total_expense, total_remanent,
                   total_ceiling, total_amount, enriched, savings_by_dates,
                   annual_wage, include_tax_benefit, error, other>>

\* the caller, done with one function, calls the next on the same request
next_invocation ==
    /\ pc \in {"done", "raised"}
    /\ pc = "done" /\ expenses # <<>> => run = 2
    /\ ~Finished(other)
    /\ other' = Frame
    /\ resume(other)

\* the batches the two ways are compared on
ComparedRecords ==
    {r \in RawRecords : \/ r.date.form = "canon" /\ r.amount >= ZERO
                        \/ r.date.t = 0 /\ r.date.form \in {"loose", "garbage"}
                                        /\ r.amount = 150
                        \/ r.date.t = 0 /\ r.date.form = "canon"}
ComparedBatches == {b \in SeqsUpTo(ComparedRecords, MaxBatch) : b # <<>>}

\* one request given to two ways of computing: build_transactions followed by
\* apply_temporal_filter, or calculate_returns, and then
\* apply_temporal_filter_raw
InitCompared ==
    \E r \in RuleSets \cup FewRuleSets :
       \E b \in IF r \in FewRuleSets THEN ComparedBatches ELSE [1 .. 1 -> PlainRecords] :
          /\ \/ Loaded(BuildFrame(r, b))
             \/ Loaded(ReturnsFrame(r, b, PlainWage, TRUE))
          /\ other = FilterRawFrame(r, b)

NextCompared ==
    \/ NextBuild
    \/ build_then_filter_call
    \/ raw_transactions = <<>> /\ NextFilter
    \/ transactions = <<>> /\ NextFilterRaw
    \/ NextReturns
    \/ next_invocation

SpecCompared == InitCompared /\ [][NextCompared]_vars

----------------------------------------------------------------------------
(* Claims about build_transactions, checked under SpecBuild *)

\* C17: the ceiling of every amount is the smallest multiple of 100 that is
\* >= the amount: a multiple of 100, >= amount, and less than 100 above it;
\* a multiple of 100 is its own ceiling.
C17_SmallestMultiple ==
    \A n \in 1 .. Len(transactions) :
        LET amount == expenses[n].amount
            ceiling == transactions[n].ceiling
        IN  /\ ceiling % 100 = 0
            /\ ceiling >= amount
            /\ ceiling - 100 < amount
            /\ amount % 100 = 0 => ceiling = amount

\* the amount -150 was given the ceiling -100: the rounding is toward plus
\* infinity below zero too
C17_Witness ==
    /\ pc = "done" /\ Len(transactions) = 1
    /\ expenses[1].amount = 0 - 150
    /\ transactions[1].ceiling = 0 - 100

\* the amounts, ceilings and remanents of a list of transactions
AmountsOf(txns) == [n \in 1 .. Len(txns) |-> txns[n].amount]
CeilingsOf(txns) == [n \in 1 .. Len(txns) |-> txns[n].ceiling]

\* C18: build_transactions neither deduplicates nor checks signs: after i
\* expenses it holds i transactions, the n-th made of the n-th expense with
\* remanent = ceiling - amount >= 0 and ceiling >= amount; the three totals are
\* the sums over these transactions and totalRemanent = totalCeiling -
\* totalExpense; at return every expense has its transaction.
C18_OnePerExpense ==
    pc \in {"build", "done"} =>
        /\ Len(transactions) = i
        /\ pc = "done" => Len(transactions) = Len(expenses)
        /\ \A n \in 1 .. Len(transactions) :
              /\ transactions[n].date = parse_timestamp(expenses[n].timestamp)
              /\ transactions[n].amount = expenses[n].amount
              /\ transactions[n].ceiling >= transactions[n].amount
              /\ transactions[n].remanent =
                    transactions[n].ceiling - transactions[n].amount
              /\ transactions[n].remanent >= 0
        /\ total_expense = SumSeq(AmountsOf(transactions))
        /\ total_ceiling = SumSeq(CeilingsOf(transactions))
        /\ total_remanent = SumSeq(RemanentsOf(transactions))
        /\ total_remanent = total_ceiling - total_expense

\* a batch of 150 and -10 on the same timestamp was built into two
\* transactions: ceilings 200 and 0, remanents 50 and 10
C18_Witness ==
    /\ pc = "done" /\ Len(expenses) = 2
    /\ expenses[1].timestamp = expenses[2].timestamp
    /\ AmountsOf(transactions) = <<150, 0 - 10>>
    /\ CeilingsOf(transactions) = <<200, 0>>
    /\ RemanentsOf(transactions) = <<50, 10>>
    /\ <<total_expense, total_ceiling, total_remanent>> = <<140, 200, 60>>

----------------------------------------------------------------------------
(* Claims about a second run of apply_temporal_filter, checked under
   SpecRefilter *)

\* the second call has returned
SecondRunDone == pc = "done" /\ run = 2

\* C11 as stated: the second run, on the valid list of the first with the same
\* rules, is a no-op: nothing moves to invalid and every remanent is unchanged.
C11_SecondRunNoOp ==
    SecondRunDone => (invalid = <<>> /\ valid = transactions)

\* C11 as amended: the second run moves nothing to invalid and copies date,
\* amount and ceiling; the remanent is unchanged when a Q rule contains the
\* timestamp (the override resets it before the same extras are added), and
\* otherwise grows once more by the extras of the P rules containing it.
C11_SecondRunAddsPAgain ==
    SecondRunDone =>
        /\ invalid = <<>>
        /\ Len(valid) = Len(transactions)
        /\ \A n \in 1 .. Len(valid) :
              /\ Identity(valid[n]) = Identity(transactions[n])
              /\ valid[n].remanent =
                    IF Containing(transactions[n].date, q_rules) # {}
                    THEN transactions[n].remanent
                    ELSE transactions[n].remanent + ClaimedExtras(transactions[n].date)

\* the second run returned two transactions covered by a P rule and by no Q
\* rule: each has the extra a second time
C11_Witness ==
    /\ SecondRunDone /\ Len(valid) = 2 /\ q_rules = <<>> /\ Len(p_rules) = 1
    /\ \A n \in 1 .. 2 :
          /\ Containing(valid[n].date, p_rules) = {1}
          /\ valid[n].remanent = transactions[n].remanent + p_rules[1].extra
          /\ valid[n].remanent =
                compute_remanent(valid[n].ceiling, valid[n].amount) + 2 * p_rules[1].extra

----------------------------------------------------------------------------
(* Claims about apply_temporal_filter_raw, checked under SpecFilterRaw *)

\* the raw record the next iteration of the loop handles
NextRaw == raw_transactions[i + 1]

\* the normalized timestamp of a raw record
Normalized(raw) == format_timestamp(parse_timestamp(raw.date))

\* some earlier record of the batch has the normalized timestamp of raw
EarlierSame(raw) ==
    \E n \in 1 .. i : Normalized(raw_transactions[n]) = Normalized(raw)

\* some earlier record with amount >= 0 has the normalized timestamp of raw
EarlierNonNegativeSame(raw) ==
    \E n \in 1 .. i : /\ raw_transactions[n].amount >= 0
                      /\ Normalized(raw_transactions[n]) = Normalized(raw)

\* ceiling - amount, then the Q override, then the P extras
ClaimedRawRemanent(raw) ==
    ClaimedBase(compute_ceiling(raw.amount) - raw.amount, parse_timestamp(raw.date))
    + ClaimedExtras(parse_timestamp(raw.date))

\* C8: a record with amount < 0 yields exactly one invalid entry, with the
\* message "Negative amounts are not allowed", and no valid entry, whatever
\* the rules and its position in the batch.
C8_NegativeRejected ==
    [][ (Iterates /\ NextRaw.amount < 0)
        => /\ valid' = valid
           /\ invalid' = Append(invalid, [date |-> parse_timestamp(NextRaw.date),
                                          amount |-> NextRaw.amount,
                                          message |-> MsgNegative]) ]_vars

\* a negative record in second place, repeating the timestamp of the first
\* and outside every K range, was rejected for its sign
C8_Witness ==
    /\ pc = "done" /\ Len(raw_transactions) = 2
    /\ raw_transactions[1].amount >= 0 /\ raw_transactions[2].amount < 0
    /\ Normalized(raw_transactions[1]) = Normalized(raw_transactions[2])
    /\ ~InSomeK(parse_timestamp(raw_transactions[2].date))
    /\ q_rules # <<>> /\ p_rules # <<>>
    /\ invalid # <<>> /\ invalid[Len(invalid)].message = MsgNegative

\* C9 as stated: a non-negative record is rejected as a duplicate if any
\* earlier record of the batch has the same normalized timestamp.
C9_AnyEarlierDuplicate ==
    [][ (Iterates /\ NextRaw.amount >= 0 /\ EarlierSame(NextRaw))
        => /\ valid' = valid
           /\ invalid' = Append(invalid, [date |-> parse_timestamp(NextRaw.date),
                                          amount |-> NextRaw.amount,
                                          message |-> MsgDuplicate]) ]_vars

\* C9 as amended: a non-negative record is rejected as a duplicate if an
\* earlier non-negative record of the batch has the same normalized timestamp
\* (a negative record is rejected before its timestamp is recorded).
C9_NonNegativeEarlierDuplicate ==
    [][ (Iterates /\ NextRaw.amount >= 0 /\ EarlierNonNegativeSame(NextRaw))
        => /\ valid' = valid
           /\ invalid' = Append(invalid, [date |-> parse_timestamp(NextRaw.date),
                                          amount |-> NextRaw.amount,
                                          message |-> MsgDuplicate]) ]_vars

\* a record spelling the timestamp of the first record differently was
\* rejected as its duplicate
C9_Witness ==
    /\ pc = "done" /\ Len(raw_transactions) = 2
    /\ raw_transactions[1].amount >= 0 /\ raw_transactions[2].amount >= 0
    /\ raw_transactions[1].date # raw_transactions[2].date
    /\ Normalized(raw_transactions[1]) = Normalized(raw_transactions[2])
    /\ invalid # <<>> /\ invalid[Len(invalid)].message = MsgDuplicate

\* C10: a non-negative, non-duplicate record whose remanent after Q and P is 0
\* is dropped, inside a K range or not: it is added to neither list.
C10_ZeroDropped ==
    [][ (Iterates /\ NextRaw.amount >= 0 /\ ~EarlierNonNegativeSame(NextRaw)
         /\ ClaimedRawRemanent(NextRaw) = 0)
        => (valid' = valid /\ invalid' = invalid) ]_vars

\* a record outside every K range, brought to 0 by a Q rule and a P rule, was
\* processed and is in neither list
C10_Witness ==
    /\ pc = "done" /\ Len(raw_transactions) = 1
    /\ raw_transactions[1].amount = 150
    /\ k_ranges # <<>> /\ ~InSomeK(parse_timestamp(raw_transactions[1].date))
    /\ Containing(parse_timestamp(raw_transactions[1].date), q_rules) # {}
    /\ Containing(parse_timestamp(raw_transactions[1].date), p_rules) # {}
    /\ i = 1 /\ valid = <<>> /\ invalid = <<>>

----------------------------------------------------------------------------
(* Claims about calculate_returns, checked under SpecReturns *)

Max(a, b) == IF a >= b THEN a ELSE b

\* the n-th record is non-negative and no earlier record of the batch has its
\* normalized timestamp
FirstOccurrence(n) ==
    /\ raw_transactions[n].amount >= 0
    /\ \A m \in 1 .. n - 1 :
          Normalized(raw_transactions[m]) # Normalized(raw_transactions[n])

\* the n-th record is non-negative and no earlier non-negative record of the
\* batch has its normalized timestamp
FirstNonNegativeOccurrence(n) ==
    /\ raw_transactions[n].amount >= 0
    /\ \A m \in 1 .. n - 1 :
          raw_transactions[m].amount >= 0
             => Normalized(raw_transactions[m]) # Normalized(raw_transactions[n])

\* the smallest multiple of 100 that is >= amount, for -100 < amount <= 300
SmallestMultiple(amount) ==
    CHOOSE c \in {100 * j : j \in 0 .. 3} : c >= amount /\ c - 100 < amount

\* the sum of f[n] over the processed records n that satisfy Counted(n)
SumOverProcessed(Counted(_), f(_)) ==
    SumSeq([n \in 1 .. i |-> IF Counted(n) THEN f(n) ELSE 0])

RawAmount(n) == raw_transactions[n].amount
RawCeiling(n) == SmallestMultiple(raw_transactions[n].amount)

\* C12 as stated: the two totals are the sums of the raw amount and of the
\* ceiling over the processed records with amount >= 0 that are the first
\* occurrence of their normalized timestamp; no rule enters the sums.
C12_TotalsOverFirstOccurrences ==
    /\ total_amount = SumOverProcessed(FirstOccurrence, RawAmount)
    /\ total_ceiling = SumOverProcessed(FirstOccurrence, RawCeiling)

\* C12 as amended: the two totals are the sums of the raw amount and of the
\* ceiling over the processed records with amount >= 0 that are the first
\* among the non-negative records with their normalized timestamp; no rule
\* enters the sums, so they are the same for every Q, P and K and count the
\* records of remanent 0 and those outside every K range.
C12_TotalsOverAccepted ==
    /\ total_amount = SumOverProcessed(FirstNonNegativeOccurrence, RawAmount)
    /\ total_ceiling = SumOverProcessed(FirstNonNegativeOccurrence, RawCeiling)

\* a record of 150 brought to remanent 0 by a Q and a P rule, outside every K
\* range, is counted in both totals and invested nowhere
C12_Witness ==
    /\ pc = "done" /\ Len(raw_transactions) = 1
    /\ q_rules # <<>> /\ p_rules # <<>> /\ k_ranges # <<>>
    /\ ~InSomeK(parse_timestamp(raw_transactions[1].date))
    /\ Len(enriched) = 1 /\ enriched[1].remanent = 0
    /\ total_amount = 150 /\ total_ceiling = 200
    /\ \A n \in 1 .. Len(savings_by_dates) : savings_by_dates[n].amount = 0

\* any amount and its ceiling, negative ones included
AnyRecord(n) == TRUE
AnyCeiling(n) ==
    IF raw_transactions[n].amount < 0 THEN 0
    ELSE SmallestMultiple(raw_transactions[n].amount)

\* C13 as stated: no sign check and no deduplication before the totals: every
\* processed record, negative or repeated, is in both totals.
C13_EveryRecordCounts ==
    /\ total_amount = SumOverProcessed(AnyRecord, RawAmount)
    /\ total_ceiling = SumOverProcessed(AnyRecord, AnyCeiling)

\* C13 as amended: the sign check and the deduplication come before the
\* totals: a record with a negative amount, or with the normalized timestamp
\* of an earlier non-negative record, changes neither total and is not
\* enriched.
C13_RejectedBeforeTotals ==
    [][ (pc = "process" /\ Iterates
         /\ (NextRaw.amount < 0 \/ EarlierNonNegativeSame(NextRaw)))
        => /\ total_amount' = total_amount
           /\ total_ceiling' = total_ceiling
           /\ enriched' = enriched ]_vars

\* a batch of 150 and, on the same timestamp, -10 has returned totals 150
\* and 200
C13_Witness ==
    /\ pc = "done" /\ Len(raw_transactions) = 2
    /\ raw_transactions[1].amount = 150 /\ raw_transactions[2].amount < 0
    /\ Normalized(raw_transactions[1]) = Normalized(raw_transactions[2])
    /\ total_amount = 150 /\ total_ceiling = 200
    /\ Len(enriched) = 1

\* the sum of the adjusted remanents of the accepted records inside window k
ClaimedInvested(k) ==
    SumSeq([n \in 1 .. Len(raw_transactions) |->
              IF /\ FirstNonNegativeOccurrence(n)
                 /\ k.start <= parse_timestamp(raw_transactions[n].date)
                 /\ parse_timestamp(raw_transactions[n].date) <= k.end
              THEN ClaimedRawRemanent(raw_transactions[n]) ELSE 0])

\* C14: the savings entries are made one per K range in the order of the K
\* list; the n-th carries the boundaries kept for the n-th range and, as its
\* amount, the sum of the adjusted remanents of the accepted records inside
\* that range (ends included), each range counted for itself; at return there
\* is an entry for every range.
C14_OneEntryPerK ==
    /\ Len(savings_by_dates) <= Len(k_ranges)
    /\ pc = "done" => Len(savings_by_dates) = Len(k_ranges)
    /\ \A n \in 1 .. Len(savings_by_dates) :
          /\ savings_by_dates[n].amount = ClaimedInvested(k_ranges[n])
          /\ savings_by_dates[n].start = k_ranges[n].raw_start
          /\ savings_by_dates[n].end = k_ranges[n].raw_end

\* a record of remanent 50 at instant 0 and the K ranges [0,0], [0,1], [1,1]:
\* the overlapping first two each invest 50, the third 0
C14_Witness ==
    /\ pc = "done" /\ Len(k_ranges) = 3 /\ Len(raw_transactions) = 1
    /\ parse_timestamp(raw_transactions[1].date) = 0
    /\ <<k_ranges[1].start, k_ranges[1].end>> = <<0, 0>>
    /\ <<k_ranges[2].start, k_ranges[2].end>> = <<0, 1>>
    /\ <<k_ranges[3].start, k_ranges[3].end>> = <<1, 1>>
    /\ [n \in 1 .. 3 |-> savings_by_dates[n].amount] = <<50, 50, 0>>

\* C15: a savings entry of the untaxed product has tax benefit 0, and so has
\* an entry of the tax-advantaged product whose invested amount is <= 0.
C15_TaxBenefitOnlyNpsInvested ==
    \A n \in 1 .. Len(savings_by_dates) :
        /\ ~include_tax_benefit => savings_by_dates[n].tax_benefit = 0
        /\ savings_by_dates[n].amount <= 0 => savings_by_dates[n].tax_benefit = 0

\* the untaxed product returned an entry with 100000 invested at a wage of
\* 1500000, and its tax benefit is 0
C15_Witness ==
    /\ pc = "done" /\ ~include_tax_benefit /\ annual_wage = 1500000
    /\ Len(savings_by_dates) = 1
    /\ savings_by_dates[1].amount = 100000
    /\ savings_by_dates[1].tax_benefit = 0

\* the part of an income (in tenths) between two thresholds (in rupees), taken
\* at a percentage: in thousandths
ClaimedBand(income, low, high, percent) ==
    percent * Max(0, Min(income, 10 * high) - 10 * low)

\* the tax on an income in tenths, in hundredths, rounded half-up
ClaimedTax(income) ==
    IF income <= 10 * 700000 THEN 0
    ELSE (ClaimedBand(income, 700000, 1000000, 10)
          + ClaimedBand(income, 1000000, 1200000, 15)
          + ClaimedBand(income, 1200000, 1500000, 20)
          + 30 * Max(0, income - 10 * 1500000)
          + 5) \div 10

\* min(invested, 10% of the wage, 200000), in tenths
ClaimedDeduction(invested) ==
    LET candidates == {10 * invested, annual_wage, 10 * 200000}
    IN  CHOOSE d \in candidates : \A e \in candidates : d <= e

\* C16: for the tax-advantaged product and invested > 0 the tax benefit is
\* tax(wage) - tax(wage - deduction), deduction = min(invested, 10% of wage,
\* 200000), tax being 0 up to 700000 and above it 10%, 15%, 20%, 30% of the
\* bands cut at 1000000, 1200000 and 1500000, rounded half-up to hundredths;
\* tax(1000000) = 30000, tax(1200000) = 60000, tax(1500000) = 120000.
C16_TaxBenefitFormula ==
    /\ \A n \in 1 .. Len(savings_by_dates) :
          (include_tax_benefit /\ savings_by_dates[n].amount > 0)
             => savings_by_dates[n].tax_benefit =
                   ClaimedTax(10 * annual_wage)
                   - ClaimedTax(10 * annual_wage
                                - ClaimedDeduction(savings_by_dates[n].amount))
    /\ calculate_tax(tenths(1000000)) = hundredths(30000)
    /\ calculate_tax(tenths(1200000)) = hundredths(60000)
    /\ calculate_tax(tenths(1500000)) = hundredths(120000)

\* wage 1111115, invested 250000: the deduction is 10% of the wage, 111111.5;
\* the tax falls from 46667.25 to 30000.525 rounded up to 30000.53, a
\* benefit of 16666.72
C16_Witness ==
    /\ pc = "done" /\ include_tax_benefit /\ annual_wage = 1111115
    /\ Len(savings_by_dates) = 1
    /\ savings_by_dates[1].amount = 250000
    /\ savings_by_dates[1].tax_benefit = 1666672

----------------------------------------------------------------------------
(* Claims about the empty K list and about malformed timestamps, checked
   under SpecCalls *)

\* the positions inside build_transactions, apply_temporal_filter_raw and
\* calculate_returns
CorePositions == {"build", "loop", "process", "buckets", "done", "raised"}

(* C19, as stated: with an empty list of K ranges the core fails with a
   configuration error, so a call on a batch of raw transactions with no K
   range never returns a result. *)
C19_EmptyKFails ==
    (k_ranges = <<>> /\ raw_transactions # <<>>) => pc # "done"

(* C19, amended: it is the request handlers that refuse an empty list of K
   ranges: the filter handler, and the returns handler once the wage is
   positive, answer "At least one K range is required." and call nothing;
   apply_temporal_filter_raw and calculate_returns themselves make no such
   check, and called with no K range they return a result, the filter with
   no valid transaction and the returns with no savings entry. *)
C19_HandlersRejectEmptyK ==
    /\ [][(/\ k_ranges = <<>>
           /\ \/ pc = "filter_route"
              \/ pc = "returns_route" /\ annual_wage > 0)
          => (/\ pc' = "rejected"
              /\ error' = MsgKRequired
              /\ i' = 0
              /\ valid' = <<>> /\ invalid' = <<>>
              /\ enriched' = <<>> /\ savings_by_dates' = <<>>)]_vars
    /\ [](pc = "done" /\ k_ranges = <<>> /\ raw_transactions # <<>>
          => /\ savings_by_dates = <<>>
             /\ valid = <<>>)

C19_Witness ==
    /\ pc = "rejected"
    /\ error = MsgKRequired
    /\ k_ranges = <<>>
    /\ annual_wage > 0
    /\ raw_transactions # <<>>

\* the timestamp strings of the batch a core function was called with
BatchStrings ==
    IF expenses # <<>>
    THEN [n \in 1 .. Len(expenses) |-> expenses[n].timestamp]
    ELSE [n \in 1 .. Len(raw_transactions) |-> raw_transactions[n].date]

\* the string does not match the format's fields, zero-padded or not
Unparsable(str) == str.form \notin {"canon", "loose"}

(* C20: a timestamp that does not match the format makes build_transactions,
   apply_temporal_filter_raw and calculate_returns fail for the whole batch,
   wherever the record stands: a call on such a batch never returns a result,
   and at the malformed record the only step is the failure. *)
C20_MalformedFailsWholeBatch ==
    /\ [](pc \in CorePositions
          => ((\E n \in 1 .. Len(BatchStrings) : Unparsable(BatchStrings[n]))
              => pc # "done"))
    /\ [][(/\ pc \in {"build", "loop", "process"}
           /\ i < Len(BatchStrings)
           /\ Unparsable(BatchStrings[i + 1]))
          => (pc' = "raised"
              /\ savings_by_dates' = <<>>)]_vars

C20_Witness ==
    /\ pc = "raised"
    /\ i >= 1
    /\ enriched # <<>>
    /\ Unparsable(raw_transactions[i + 1].date)

----------------------------------------------------------------------------
(* Further claims about calculate_returns, checked under SpecReturns *)

(* C21: each savings entry echoes the boundaries of its K range as the
   request spelled them: its start and its end are strings, not empty, that
   spell the start and the end of the range. *)
C21_BoundariesEchoed ==
    \A n \in 1 .. Len(savings_by_dates) :
        /\ savings_by_dates[n].start # EmptyString
        /\ is_valid_timestamp(savings_by_dates[n].start)
        /\ parse_timestamp(savings_by_dates[n].start) = k_ranges[n].start
        /\ savings_by_dates[n].end # EmptyString
        /\ is_valid_timestamp(savings_by_dates[n].end)
        /\ parse_timestamp(savings_by_dates[n].end) = k_ranges[n].end

----------------------------------------------------------------------------
(* Further claims about the request handlers, checked under SpecCalls *)

\* a returns:index request with a positive wage, at least one K range and
\* records keyed by date
CompleteIndexRequest ==
    /\ ~include_tax_benefit
    /\ annual_wage > 0
    /\ k_ranges # <<>>
    /\ raw_transactions # <<>>
    /\ \A n \in 1 .. Len(raw_transactions) : "date" \in DOMAIN raw_transactions[n]

(* C22: a structurally complete returns:index request is served: once it is
   answered, the answer is a result, never an error. *)
C22_CompleteRequestServed ==
    (CompleteIndexRequest /\ pc \in {"done", "rejected"})
       => (pc = "done" /\ error = "")

----------------------------------------------------------------------------
(* Further claims about validate_transactions, checked under SpecValidate *)

\* the input transactions at the positions S among the first n, in input order
RECURSIVE PickUpTo(_, _)
PickUpTo(S, n) ==
    IF n = 0 THEN <<>>
    ELSE IF n \in S THEN Append(PickUpTo(S, n - 1), transactions[n])
    ELSE PickUpTo(S, n - 1)

(* C23: validate_transactions never halts on a rule failure and returns a
   partition of its input: after i iterations every one of the first i input
   transactions is, by position, in exactly one of valid and invalid, both
   lists are in input order and |valid| + |invalid| = i; the function ends by
   returning, with i the length of the input. *)
C23_Partition ==
    /\ pc \in {"loop", "done"}
    /\ pc = "done" => i = Len(transactions)
    /\ Len(valid) + Len(invalid) = i
    /\ \E S \in SUBSET (1 .. i) :
          /\ valid = PickUpTo(S, i)
          /\ [n \in 1 .. Len(invalid) |-> invalid[n].transaction]
                = PickUpTo((1 .. i) \ S, i)

\* a batch of three whose second transaction is valid, between two rejected
\* ones, the last as a duplicate
C23_Witness ==
    /\ pc = "done"
    /\ Len(transactions) = 3
    /\ Len(valid) = 1 /\ valid[1] = transactions[2]
    /\ Len(invalid) = 2
    /\ invalid[1].transaction = transactions[1]
    /\ invalid[2].transaction = transactions[3]
    /\ invalid[2].message = MsgDuplicateTimestamp

(* C28: the transactions in valid have pairwise distinct serialized
   timestamps, and each has remanent >= 0 and ceiling >= amount. *)
C28_ValidClean ==
    /\ \A m, n \in 1 .. Len(valid) :
          m # n => format_timestamp(valid[m].date) # format_timestamp(valid[n].date)
    /\ \A n \in 1 .. Len(valid) :
          valid[n].remanent >= 0 /\ valid[n].ceiling >= valid[n].amount

\* two transactions were accepted and one with ceiling < amount rejected
C28_Witness ==
    /\ pc = "done"
    /\ Len(valid) = 2
    /\ \E n \in 1 .. Len(invalid) :
          /\ invalid[n].message = MsgCeiling
          /\ invalid[n].transaction.remanent >= 0

----------------------------------------------------------------------------
(* Further claims about apply_temporal_filter, checked under SpecFilter *)

(* C24: apply_temporal_filter never mutates in place: no step changes the
   input list, any field of an input transaction, or the Q, P and K lists;
   the entry an iteration appends to valid or to invalid has the date, the
   amount and the ceiling of its input transaction, and the entry appended to
   invalid carries the Q/P-adjusted remanent. *)
C24_NoMutation ==
    [][ /\ transactions' = transactions
        /\ q_rules' = q_rules /\ p_rules' = p_rules /\ k_ranges' = k_ranges
        /\ Iterates =>
              /\ Identity(AppendedTxn) = Identity(NextTxn)
              /\ invalid' # invalid =>
                    invalid'[Len(invalid')].transaction.remanent
                       = ClaimedBase(NextTxn.remanent, NextTxn.date)
                            + ClaimedExtras(NextTxn.date) ]_vars

\* a transaction outside every K range is in invalid with an adjusted
\* remanent, and the input still has the remanent it came with
C24_Witness ==
    /\ pc = "done"
    /\ Len(transactions) = 1 /\ Len(invalid) = 1
    /\ transactions[1].remanent = 50
    /\ invalid[1].transaction.remanent # 50
    /\ Identity(invalid[1].transaction) = Identity(transactions[1])

----------------------------------------------------------------------------
(* More claims about calculate_returns, checked under SpecReturns *)

(* C29: for the tax-advantaged product the tax benefit of a savings entry is
   never negative, and at a wage of 700000 or less it is 0 whatever was
   invested; the deduction of an entry with something invested never exceeds
   10% of the wage. *)
C29_TaxBenefitNotNegative ==
    \A n \in 1 .. Len(savings_by_dates) :
        include_tax_benefit =>
            /\ savings_by_dates[n].tax_benefit >= 0
            /\ annual_wage <= 700000 => savings_by_dates[n].tax_benefit = 0
            /\ savings_by_dates[n].amount > 0 =>
                  ClaimedDeduction(savings_by_dates[n].amount) <= annual_wage

\* 250000 invested at a wage of 700000 for the tax-advantaged product: no
\* benefit
C29_Witness ==
    /\ pc = "done" /\ include_tax_benefit /\ annual_wage = 700000
    /\ Len(savings_by_dates) = 1
    /\ savings_by_dates[1].amount = 250000
    /\ savings_by_dates[1].tax_benefit = 0

----------------------------------------------------------------------------
(* Further claims about apply_temporal_filter_raw, checked under
   SpecFilterRaw *)

\* the parsed date and the amount of the processed records at the positions S,
\* in input order
RECURSIVE PickRawUpTo(_, _)
PickRawUpTo(S, n) ==
    IF n = 0 THEN <<>>
    ELSE IF n \in S
         THEN Append(PickRawUpTo(S, n - 1),
                     <<raw_transactions[n].date.t, raw_transactions[n].amount>>)
    ELSE PickRawUpTo(S, n - 1)

(* C30: every entry of valid has amount >= 0, a remanent other than 0, the
   flag inKPeriod set and its timestamp inside some K range, and a timestamp
   no other valid entry has; valid and invalid are taken from the input in
   input order, no record twice, so |valid| + |invalid| <= |input|. *)
C30_ValidEntries ==
    /\ \A n \in 1 .. Len(valid) :
          /\ valid[n].amount >= 0
          /\ valid[n].remanent # 0
          /\ valid[n].in_k_period = TRUE
          /\ InSomeK(valid[n].date)
          /\ \A m \in 1 .. Len(valid) : valid[m].date = valid[n].date => m = n
    /\ Len(valid) + Len(invalid) <= i
    /\ i <= Len(raw_transactions)
    /\ \E S \in SUBSET (1 .. i) :
          /\ [n \in 1 .. Len(valid) |-> <<valid[n].date, valid[n].amount>>]
                = PickRawUpTo(S, i)
          /\ \E T \in SUBSET ((1 .. i) \ S) :
                [n \in 1 .. Len(invalid) |-> <<invalid[n].date, invalid[n].amount>>]
                   = PickRawUpTo(T, i)

\* of two records one is valid and the other, its remanent 0, is in neither
\* list
C30_Witness ==
    /\ pc = "done"
    /\ Len(raw_transactions) = 2
    /\ Len(valid) = 1 /\ invalid = <<>>
    /\ valid[1].date = raw_transactions[2].date.t
    /\ raw_transactions[1].amount = 100

----------------------------------------------------------------------------
(* Claims about the two Temporal Rule Engine variants and the returns
   pipeline, checked under SpecCompared: apply_temporal_filter_raw has
   returned in the running invocation, the other way of computing in other *)

BothReturned ==
    /\ pc = "done" /\ raw_transactions # <<>> /\ i = Len(raw_transactions)
    /\ other.pc = "done"

\* amounts >= 0 and pairwise distinct timestamps (as instants)
CleanBatch(b) ==
    /\ \A n \in 1 .. Len(b) : b[n].amount >= ZERO
    /\ \A m, n \in 1 .. Len(b) :
          m # n => parse_timestamp(b[m].date) # parse_timestamp(b[n].date)

FourFields(e) ==
    [date |-> e.date, amount |-> e.amount, ceiling |-> e.ceiling,
     remanent |-> e.remanent]

\* the fields among the four that an entry carries
FieldsCarried(e) ==
    [f \in {"date", "amount", "ceiling", "remanent"} \cap DOMAIN e |-> e[f]]

NonZero(e) == e.remanent # ZERO

\* the lists of apply_temporal_filter on the build_transactions output, with the
\* transactions of adjusted remanent 0 removed
PipelineValid == SelectSeq(other.valid, NonZero)
PipelineInvalid ==
    SelectSeq([n \in 1 .. Len(other.invalid) |-> other.invalid[n].transaction],
              NonZero)

ValidListsAgree ==
    [n \in 1 .. Len(valid) |-> FourFields(valid[n])]
       = [n \in 1 .. Len(PipelineValid) |-> FourFields(PipelineValid[n])]

\* C26 as stated: on clean input the valid lists of the two variants are equal
\* on date, amount, ceiling and remanent, in order, and so are the two invalid
\* lists
C26_InvalidListsEqualOnFourFields ==
    BothReturned /\ other.run = 2 /\ CleanBatch(raw_transactions)
       => /\ ValidListsAgree
          /\ [n \in 1 .. Len(invalid) |-> FieldsCarried(invalid[n])]
                = [n \in 1 .. Len(PipelineInvalid) |->
                     FieldsCarried(PipelineInvalid[n])]

\* C26, amended: on clean input the valid lists of the two variants are equal
\* on date, amount, ceiling and remanent, in order; the invalid lists are equal
\* on date and amount, in order (an invalid entry of apply_temporal_filter_raw
\* carries no ceiling and no remanent)
C26_VariantsAgree ==
    BothReturned /\ other.run = 2 /\ CleanBatch(raw_transactions)
       => /\ ValidListsAgree
          /\ [n \in 1 .. Len(invalid) |->
                [date |-> invalid[n].date, amount |-> invalid[n].amount]]
                = [n \in 1 .. Len(PipelineInvalid) |->
                     [date |-> PipelineInvalid[n].date,
                      amount |-> PipelineInvalid[n].amount]]

C26_Witness ==
    /\ BothReturned /\ other.run = 2 /\ CleanBatch(raw_transactions)
    /\ invalid # <<>>
    /\ Len(other.valid) > Len(valid)

\* the sum of the remanents of the entries whose timestamp lies inside k
RECURSIVE RemanentsInside(_, _)
RemanentsInside(entries, k) ==
    IF entries = <<>> THEN 0
    ELSE (IF k.start <= Head(entries).date /\ Head(entries).date <= k.end
          THEN Head(entries).remanent ELSE 0)
         + RemanentsInside(Tail(entries), k)

\* C27: the invested amount calculate_returns reports for a K range is the sum
\* of the remanents of the valid entries of apply_temporal_filter_raw (same
\* batch and rules) whose timestamp lies inside that K range
C27_InvestedAgrees ==
    BothReturned /\ other.expenses = <<>>
       => /\ Len(other.savings_by_dates) = Len(k_ranges)
          /\ \A n \in 1 .. Len(k_ranges) :
                other.savings_by_dates[n].amount
                   = RemanentsInside(valid, k_ranges[n])

C27_Witness ==
    /\ BothReturned /\ other.expenses = <<>>
    /\ Len(raw_transactions) > Len(valid) + Len(invalid)
    /\ invalid # <<>>
    /\ \E n \in 1 .. Len(k_ranges) : other.savings_by_dates[n].amount > 0

----------------------------------------------------------------------------
(* Claims about interleaved invocations, checked under SpecInterleaved *)

\* what validate_transactions(w, batch) has after n iterations when it runs alone
RECURSIVE AloneValidate(_, _, _)
AloneValidate(w, batch, n) ==
    IF n = 0
    THEN [valid |-> <<>>, invalid |-> <<>>, seen |-> {}, sum |-> ZERO,
          reached |-> FALSE]
    ELSE LET s == AloneValidate(w, batch, n - 1)
             txn == batch[n]
             verdict == validation_verdict(txn, s.seen, s.reached, s.sum,
                                           max_investable(w))
         IN  [valid |-> IF verdict = NoMessage THEN Append(s.valid, txn) ELSE s.valid,
              invalid |-> IF verdict = NoMessage THEN s.invalid
                          ELSE Append(s.invalid, [transaction |-> txn,
                                                  message |-> verdict]),
              seen |-> seen_after(s.seen, txn, verdict),
              sum |-> IF verdict = NoMessage THEN s.sum + txn.remanent ELSE s.sum,
              reached |-> breached_after(s.reached, verdict)]

\* what apply_temporal_filter_raw has after n iterations when it runs alone
RECURSIVE AloneFilterRaw(_, _, _, _, _)
AloneFilterRaw(q, p, k, batch, n) ==
    IF n = 0 THEN [valid |-> <<>>, invalid |-> <<>>, seen |-> {}]
    ELSE LET s == AloneFilterRaw(q, p, k, batch, n - 1)
             raw == batch[n]
             verdict == raw_verdict(raw, s.seen, q, p, k)
         IN  [valid |-> IF verdict = NoMessage
                        THEN Append(s.valid,
                                    [date |-> parse_timestamp(raw.date),
                                     amount |-> raw.amount,
                                     ceiling |-> compute_ceiling(raw.amount),
                                     remanent |-> raw_remanent(raw, q, p),
                                     in_k_period |-> TRUE])
                        ELSE s.valid,
              invalid |-> IF verdict \in {MsgNegative, MsgDuplicate, MsgOutsideK}
                          THEN Append(s.invalid,
                                      [date |-> parse_timestamp(raw.date),
                                       amount |-> raw.amount, message |-> verdict])
                          ELSE s.invalid,
              seen |-> IF verdict \in {MsgNegative, MsgDuplicate} THEN s.seen
                       ELSE s.seen \cup {duplicate_key(raw.date)}]

\* what calculate_returns has after n records when it runs alone
RECURSIVE AloneProcess(_, _, _, _)
AloneProcess(q, p, batch, n) ==
    IF n = 0 THEN [enriched |-> <<>>, seen |-> {}, amount |-> ZERO, ceiling |-> ZERO]
    ELSE LET s == AloneProcess(q, p, batch, n - 1)
             raw == batch[n]
             accepted == returns_verdict(raw, s.seen) = "accepted"
         IN  [enriched |-> IF accepted
                           THEN Append(s.enriched,
                                       [date |-> parse_timestamp(raw.date),
                                        amount |-> raw.amount,
                                        ceiling |-> compute_ceiling(raw.amount),
                                        remanent |-> raw_remanent(raw, q, p)])
                           ELSE s.enriched,
              seen |-> IF accepted THEN s.seen \cup {duplicate_key(raw.date)}
                       ELSE s.seen,
              amount |-> IF accepted THEN s.amount + raw.amount ELSE s.amount,
              ceiling |-> IF accepted THEN s.ceiling + compute_ceiling(raw.amount)
                          ELSE s.ceiling]

\* the records before the first one whose timestamp does not parse
ParsablePrefix(batch) ==
    CHOOSE n \in 0 .. Len(batch) :
       /\ \A m \in 1 .. n : is_valid_timestamp(batch[m].date)
       /\ n < Len(batch) => ~is_valid_timestamp(batch[n + 1].date)

\* the invocation with the locals f is where it is when it runs alone
AsAlone(f) ==
    IF f.transactions # <<>>
    THEN LET a == AloneValidate(f.wage, f.transactions, f.i)
         IN  /\ f.valid = a.valid /\ f.invalid = a.invalid
             /\ f.seen_timestamps = a.seen
             /\ f.cumulative_remanent = a.sum
             /\ f.nps_limit_reached = a.reached
             /\ f.pc = "done" => f.i = Len(f.transactions)
    ELSE IF f.annual_wage = 0
    THEN LET a == AloneFilterRaw(f.q_rules, f.p_rules, f.k_ranges,
                                 f.raw_transactions, f.i)
         IN  /\ f.valid = a.valid /\ f.invalid = a.invalid
             /\ f.seen_timestamps = a.seen
             /\ f.i <= ParsablePrefix(f.raw_transactions)
             /\ f.pc = "done" => f.i = Len(f.raw_transactions)
             /\ f.pc = "raised" => f.i < Len(f.raw_transactions)
    ELSE LET a == AloneProcess(f.q_rules, f.p_rules, f.raw_transactions, f.i)
         IN  /\ f.enriched = a.enriched /\ f.seen_timestamps = a.seen
             /\ f.total_amount = a.amount /\ f.total_ceiling = a.ceiling
             /\ f.i <= ParsablePrefix(f.raw_transactions)
             /\ f.pc = "raised" => f.i < Len(f.raw_transactions)
             /\ f.pc = "done"
                   => /\ f.i = Len(f.raw_transactions)
                      /\ f.savings_by_dates =
                            [n \in 1 .. Len(f.k_ranges) |->
                               compute_savings(f.k_ranges[n],
                                               sum_remanent_in_k(a.enriched,
                                                                 f.k_ranges[n]),
                                               f.annual_wage,
                                               f.include_tax_benefit)]

\* C25: two interleaved invocations of validate_transactions,
\* apply_temporal_filter_raw or calculate_returns each have, and return, what
\* they have and return when run alone: the set of seen timestamps, the
\* running sum and the breached flag of one are never visible to the other
C25_InvocationsIsolated == AsAlone(Frame) /\ AsAlone(other)

C25_Witness ==
    /\ pc = "done" /\ other.pc = "done"
    /\ transactions # <<>> /\ other.transactions # <<>>
    /\ seen_timestamps \cap other.seen_timestamps # {}
    /\ nps_limit_reached /\ ~other.nps_limit_reached
    /\ Len(other.valid) = Len(other.transactions)

====
